---- MODULE Spec2Model ----
(***************************************************************************)
(* Model of the holder cache (src/src/api.rs, HolderCache) and of the      *)
(* retrying RPC client (src/src/rpc_client.rs, SolanaRpcClient).           *)
(*                                                                         *)
(* Spec        : foreground get_holder_count callers racing with the       *)
(*               background refresh task on the shared cache table.  A     *)
(*               remote fetch is an await point whose outcome is one of    *)
(*               the results fetch_holder_count can return.                *)
(* SpecFetch   : one call of get_token_accounts_by_mint, the retry loop.   *)
(* SpecBackoff : the retry loop after any number of failed attempts.       *)
(* SpecExtract : one call of extract_holders (src/src/token_monitor.rs).   *)
(* SpecMonitor : the monitoring loop of main (src/src/main.rs).            *)
(***************************************************************************)
EXTENDS Integers, Sequences, FiniteSets, TLC

VARIABLES
    cache,      \* HolderCache.cache: HashMap<String, HolderCacheEntry>
    now,        \* SystemTime::now() in seconds
    cl,         \* per caller: position inside get_holder_count and its locals
    rf,         \* the task spawned by start_refresh_task: position and locals
    ev,         \* the operation completed by the last step
    gets,       \* number of get_holder_count calls started so far
    rounds,     \* number of refresh rounds started so far
    asked,      \* the mints get_holder_count has been called with so far
    max_retries,\* SolanaRpcClient.max_retries
    f_pc,       \* position inside get_token_accounts_by_mint
    attempt,    \* loop variable of `for attempt in 0..self.max_retries`
    last_error, \* local `last_error`
    calls,      \* outcome of every attempt made so far, in order
    sleeps,     \* every delay slept so far, in order (milliseconds)
    f_result,   \* value returned by get_token_accounts_by_mint
    accounts,   \* extract_holders: the argument `accounts`
    e_pc,       \* position of the call of extract_holders
    holders,    \* value returned by extract_holders
    m_pc,       \* main: position inside the monitoring loop
    shutdown,   \* main: the AtomicBool `shutdown`
    previous_count, \* main: local `previous_count`
    metrics,    \* main: local `metrics`
    stats,      \* HolderStats computed by the last successful cycle
    observed,   \* every count Metrics::update has been called with, in order
    a_cache,    \* ApiState.cache: HashMap<String, CacheEntry>
    a_now,      \* Instant::now(), in seconds since the server started
    a_cl,       \* per caller: position inside ApiState::get_holder_count
    a_rf,       \* the task spawned by start_cache_refresher: position, locals
    a_ev,       \* the operation of ApiState completed by the last step
    cache_ttl,  \* ApiState.cache_ttl, in seconds
    lock,       \* HolderCache.cache: who holds the RwLock of the table
    rpc,        \* the tasks whose call of the RPC client is in flight
    fetched     \* per task: local `count`, the result of its fetch

cacheVars == <<cache, now, cl, rf, ev, gets, rounds, asked>>
fetchVars == <<max_retries, f_pc, attempt, last_error, calls, sleeps, f_result>>
extractVars == <<accounts, e_pc, holders>>
monVars == <<m_pc, shutdown, previous_count, metrics, stats, observed>>
apiVars == <<a_cache, a_now, a_cl, a_rf, a_ev, cache_ttl>>
lockVars == <<lock, rpc, fetched>>
vars == <<cache, now, cl, rf, ev, gets, rounds, asked,
          max_retries, f_pc, attempt, last_error, calls, sleeps, f_result,
          accounts, e_pc, holders,
          m_pc, shutdown, previous_count, metrics, stats, observed,
          a_cache, a_now, a_cl, a_rf, a_ev, cache_ttl,
          lock, rpc, fetched>>

----------------------------------------------------------------------------
(* Bounds of the model *)

MaxGets == 3        \* get_holder_count is called at most MaxGets times
MaxRounds == 1      \* the refresh timer fires at most MaxRounds times
MaxRetries == 3     \* max_retries is drawn from 0..MaxRetries
MaxAttempt == 64    \* the backoff is computed for attempts 0..MaxAttempt
MaxAccounts == 3    \* extract_holders is given at most MaxAccounts accounts
MaxPolls == 2       \* the monitoring loop completes at most MaxPolls cycles
MaxInstant == 2     \* the clock of the API server is read at 0..MaxInstant
MaxLockOps == 2     \* calls of get_holder_count and timer ticks followed through the lock

(* Program constants *)

max_tokens == 2

(* The values the clock is read at (seconds), and the holder counts a       *)
(* successful fetch reports.  Timestamps are only copied and compared, and  *)
(* counts only copied.                                                      *)
Seconds == {0, 1}
Counts == {0, 1}

(* Well-formed mint addresses, one malformed address, the callers *)
Mints == {"m1", "m2", "m3"}
MintOrder == <<"m1", "m2", "m3">>
BadMint == "bad"
Clients == {"c1", "c2"}
Refresher == "refresher"
NoMint == "-"

----------------------------------------------------------------------------
(* Values *)

HolderCacheEntry(c, ts, rc, fs) ==
    [count |-> c, timestamp |-> ts, request_count |-> rc, first_seen |-> fs]

Ok(e) == [tag |-> "ok", entry |-> e, error |-> "-"]
Err(msg) == [tag |-> "err", entry |-> HolderCacheEntry(0, 0, 0, 0), error |-> msg]
NoRet == [tag |-> "none", entry |-> HolderCacheEntry(0, 0, 0, 0), error |-> "-"]

FetchOk(c) == [ok |-> TRUE, count |-> c, error |-> "-"]
FetchErr(msg) == [ok |-> FALSE, count |-> 0, error |-> msg]

IdleCaller == [pc |-> "idle", mint |-> NoMint, now |-> 0]
IdleRefresher ==
    [pc |-> "tick", todo |-> <<>>, now |-> 0, count |-> 0,
     request_count |-> 0, first_seen |-> 0]

(* ev: the operation the last step completed, the key it was about, the     *)
(* entry it evicted and the value it returned to its caller; NoEvent after  *)
(* a step that completes no operation.                                      *)
Event(op, m, evicted, r) ==
    [op |-> op, mint |-> m, evicted |-> evicted, ret |-> r]
NoEvent == Event("-", NoMint, {}, NoRet)

(* HashMap operations *)
Insert(c, k, e) == [x \in (DOMAIN c) \cup {k} |-> IF x = k THEN e ELSE c[x]]
Remove(c, k) == [x \in (DOMAIN c) \ {k} |-> c[x]]
EmptyMap == [x \in {} |-> HolderCacheEntry(0, 0, 0, 0)]

(* Every order in which a HashMap can iterate over the keys S *)
Orders(S) ==
    {s \in [1..Cardinality(S) -> S] : \A i, j \in 1..Cardinality(S) : s[i] = s[j] => i = j}

----------------------------------------------------------------------------
(* HolderCache::fetch_holder_count: every value the call can return for a   *)
(* mint string.  A malformed string fails at Pubkey::from_str before the    *)
(* RPC client is called; otherwise the call ends with the holder count, or  *)
(* with the RPC client's error, or with the timeout error.                  *)
fetch_holder_count(m) ==
    IF m \notin Mints
    THEN {FetchErr("Invalid mint address")}
    ELSE {FetchOk(c) : c \in Counts}
         \cup {FetchErr("Failed to fetch token accounts"),
               FetchErr("RPC request timed out")}

(* Variant of oldest_mint: the minimum is taken over first_seen.            *)
oldest_by_first_seen(c) ==
    {k \in DOMAIN c : \A j \in DOMAIN c : c[k].first_seen <= c[j].first_seen}

(* min_by_key(|(_, entry)| entry.timestamp) over the map: the keys one of   *)
(* which it returns (the first minimum in the map's iteration order).       *)
oldest_mint(c) ==
    {k \in DOMAIN c : \A j \in DOMAIN c : c[k].timestamp <= c[j].timestamp}

(* The strings a caller passes to get_holder_count: the malformed one, a    *)
(* mint some caller has asked for before, or a mint nobody has asked for    *)
(* yet.  Mints differ in name only, so the new one is the next of MintOrder.*)
Askable ==
    {BadMint} \cup asked
    \cup {MintOrder[i] : i \in {j \in 1..Len(MintOrder) :
                                  /\ MintOrder[j] \notin asked
                                  /\ \A k \in 1..(j-1) : MintOrder[k] \in asked}}

(* The remote fetches in flight for mint m: callers and the refresher that  *)
(* are awaiting fetch_holder_count for it.                                  *)
InFlight(m) ==
    {p \in Clients : cl[p].pc = "fetch" /\ cl[p].mint = m}
    \cup (IF rf.pc = "fetch" /\ Head(rf.todo) = m THEN {Refresher} ELSE {})

----------------------------------------------------------------------------
(* The clock is read by SystemTime::now(); between two reads it may have    *)
(* advanced by any amount.  `now` is the value read last.                   *)
ClockReads == {t \in Seconds : t >= now}

(* Variant of GetHit: the hit also renews the entry's timestamp.            *)
GetHitRenews(p, m) ==
    /\ cl[p].pc = "idle"
    /\ m \in DOMAIN cache
    /\ gets < MaxGets
    /\ gets' = gets + 1
    /\ cache' = [cache EXCEPT ![m].request_count = @ + 1, ![m].timestamp = now]
    /\ ev' = Event("hit", m, {}, Ok(cache'[m]))
    /\ UNCHANGED <<now, cl, rf, rounds, asked>>

(* get_holder_count, cache hit: under the write lock the entry is found,    *)
(* its request_count incremented and a clone returned.                      *)
GetHit(p, m) ==
    /\ cl[p].pc = "idle"
    /\ m \in DOMAIN cache
    /\ gets < MaxGets
    /\ gets' = gets + 1
    /\ cache' = [cache EXCEPT ![m].request_count = @ + 1]
    /\ ev' = Event("hit", m, {}, Ok(cache'[m]))
    /\ UNCHANGED <<now, cl, rf, rounds, asked>>

(* get_holders: the status GET /holders/{mint_str} is answered with, given  *)
(* what get_holder_count returned (it is not called for a string that is    *)
(* no mint address).  TimedOutErrors are the errors whose message contains  *)
(* "timed out"; only the outermost message of an error chain is formatted.  *)
TimedOutErrors == {"RPC request timed out"}
get_holders_status(mint_str, r) ==
    IF mint_str \notin Mints
    THEN 400
    ELSE IF r.tag = "ok"
         THEN 200
         ELSE IF r.error \in TimedOutErrors THEN 504 ELSE 500

(* get_holders: the body of a 200 response, built from the entry            *)
(* get_holder_count returned; `cached` is request_count > 1.                *)
HolderResponse(mint_str, entry) ==
    [mint |-> mint_str, holders |-> entry.count, timestamp |-> entry.timestamp,
     cached |-> entry.request_count > 1]

(* get_holders with a string that is no mint address: BAD_REQUEST, the      *)
(* cache is not called.                                                     *)
GetHoldersBadRequest(p, m) ==
    /\ cl[p].pc = "idle"
    /\ m \in Askable
    /\ m \notin Mints
    /\ gets < MaxGets
    /\ gets' = gets + 1
    /\ ev' = Event("bad_request", m, {}, NoRet)
    /\ UNCHANGED <<cache, now, cl, rf, rounds, asked>>

(* Variant of GetInvalid: the string is parsed only after the remote call,  *)
(* so the caller starts a fetch for it.                                     *)
GetInvalidFetches(p, m, t) ==
    /\ cl[p].pc = "idle"
    /\ m \in Askable
    /\ m \notin DOMAIN cache
    /\ m \notin Mints
    /\ gets < MaxGets
    /\ gets' = gets + 1
    /\ t \in ClockReads
    /\ now' = t
    /\ cl' = [cl EXCEPT ![p] = [pc |-> "fetch", mint |-> m, now |-> t]]
    /\ ev' = NoEvent
    /\ UNCHANGED <<cache, rf, rounds, asked>>

(* get_holder_count with a string that is no mint address: `now` is taken,  *)
(* the key is not found, the lock is dropped, and fetch_holder_count        *)
(* returns the parse error at once, before it calls the RPC client; the     *)
(* caller never waits for a remote call.                                    *)
GetInvalid(p, m, t) ==
    /\ cl[p].pc = "idle"
    /\ m \in Askable
    /\ m \notin DOMAIN cache
    /\ m \notin Mints
    /\ gets < MaxGets
    /\ gets' = gets + 1
    /\ t \in ClockReads
    /\ now' = t
    /\ \E r \in fetch_holder_count(m) : ev' = Event("get_invalid", m, {}, Err(r.error))
    /\ UNCHANGED <<cache, cl, rf, rounds, asked>>

(* get_holder_count, cache miss: `now` is taken, the key is not found, the  *)
(* lock is dropped and the caller awaits the remote call made by            *)
(* fetch_holder_count.                                                      *)
GetMiss(p, m, t) ==
    /\ cl[p].pc = "idle"
    /\ m \in Askable
    /\ m \in Mints
    /\ m \notin DOMAIN cache
    /\ gets < MaxGets
    /\ gets' = gets + 1
    /\ t \in ClockReads
    /\ now' = t
    /\ cl' = [cl EXCEPT ![p] = [pc |-> "fetch", mint |-> m, now |-> t]]
    /\ asked' = asked \cup ({m} \cap Mints)
    /\ ev' = NoEvent
    /\ UNCHANGED <<cache, rf, rounds>>

(* Variant of GetFetchErr: the failure is cached as an entry of count 0.    *)
GetFetchErrCachesFailure(p, r) ==
    /\ cl[p].pc = "fetch"
    /\ r \in fetch_holder_count(cl[p].mint)
    /\ ~r.ok
    /\ cache' = Insert(cache, cl[p].mint, HolderCacheEntry(0, cl[p].now, 1, cl[p].now))
    /\ cl' = [cl EXCEPT ![p] = IdleCaller]
    /\ ev' = Event("get_fetch_err", cl[p].mint, {}, Err(r.error))
    /\ UNCHANGED <<now, rf, gets, rounds, asked>>

(* The caller's fetch returned Err(e): get_holder_count returns Err(e).     *)
GetFetchErr(p, r) ==
    /\ cl[p].pc = "fetch"
    /\ r \in fetch_holder_count(cl[p].mint)
    /\ ~r.ok
    /\ cl' = [cl EXCEPT ![p] = IdleCaller]
    /\ ev' = Event("get_fetch_err", cl[p].mint, {}, Err(r.error))
    /\ UNCHANGED <<cache, now, rf, gets, rounds, asked>>

(* The caller's fetch returned Ok(count).  The caller then takes the write   *)
(* lock, evicts if the map is full and the key is new, inserts its entry    *)
(* and returns it.  Between the fetch's return and the lock the caller      *)
(* touches nothing shared, so the two are one step: whatever another task   *)
(* does in between, it can as well do before the fetch returns.             *)
GetStore(p, r) ==
    /\ cl[p].pc = "fetch"
    /\ r \in fetch_holder_count(cl[p].mint)
    /\ r.ok
    /\ LET m == cl[p].mint
           entry == HolderCacheEntry(r.count, cl[p].now, 1, cl[p].now)
       IN  IF Cardinality(DOMAIN cache) >= max_tokens /\ m \notin DOMAIN cache
           THEN \E old_mint \in oldest_mint(cache) :
                   /\ cache' = Insert(Remove(cache, old_mint), m, entry)
                   /\ ev' = Event("store", m,
                                  {[mint |-> old_mint, entry |-> cache[old_mint]]},
                                  Ok(entry))
           ELSE /\ cache' = Insert(cache, m, entry)
                /\ ev' = Event("store", m, {}, Ok(entry))
    /\ cl' = [cl EXCEPT ![p] = IdleCaller]
    /\ UNCHANGED <<now, rf, gets, rounds, asked>>

----------------------------------------------------------------------------
(* The refresh task *)

(* What the task does after it is done with the key at the head of todo.    *)
NextKey(t) ==
    IF Len(t) > 1
    THEN [IdleRefresher EXCEPT !.pc = "fetch", !.todo = Tail(t)]
    ELSE IdleRefresher

(* The timer fires: the keys are collected under the read lock, and the     *)
(* first fetch is started.                                                  *)
RefreshTick ==
    /\ rf.pc = "tick"
    /\ rounds < MaxRounds
    /\ rounds' = rounds + 1
    /\ \E order \in Orders(DOMAIN cache) :
          rf' = IF order = <<>>
                THEN IdleRefresher
                ELSE [IdleRefresher EXCEPT !.pc = "fetch", !.todo = order]
    /\ ev' = NoEvent
    /\ UNCHANGED <<cache, now, cl, gets, asked>>

(* The same step, with the rounds not counted: the timer fires for ever.    *)
RefreshTickAgain ==
    /\ rf.pc = "tick"
    /\ \E order \in Orders(DOMAIN cache) :
          rf' = IF order = <<>>
                THEN IdleRefresher
                ELSE [IdleRefresher EXCEPT !.pc = "fetch", !.todo = order]
    /\ ev' = NoEvent
    /\ UNCHANGED <<cache, now, cl, gets, rounds, asked>>

(* The refresher's fetch returned Ok(count): `now` is taken, then the task  *)
(* awaits the read lock.                                                    *)
RefreshFetchOk(r, t) ==
    /\ rf.pc = "fetch"
    /\ r \in fetch_holder_count(Head(rf.todo))
    /\ r.ok
    /\ t \in ClockReads
    /\ now' = t
    /\ rf' = [rf EXCEPT !.pc = "read", !.count = r.count, !.now = t]
    /\ ev' = NoEvent
    /\ UNCHANGED <<cache, cl, gets, rounds, asked>>

(* Variant of RefreshFetchErr: the entry that could not be refreshed is     *)
(* dropped.                                                                 *)
RefreshFetchErrDropsEntry(r) ==
    /\ rf.pc = "fetch"
    /\ r \in fetch_holder_count(Head(rf.todo))
    /\ ~r.ok
    /\ cache' = Remove(cache, Head(rf.todo))
    /\ rf' = NextKey(rf.todo)
    /\ ev' = Event("refresh_fetch_err", Head(rf.todo), {}, NoRet)
    /\ UNCHANGED <<now, cl, gets, rounds, asked>>

(* Variant of RefreshFetchErr: the error ends the task.                     *)
RefreshFetchErrStops(r) ==
    /\ rf.pc = "fetch"
    /\ r \in fetch_holder_count(Head(rf.todo))
    /\ ~r.ok
    /\ rf' = [IdleRefresher EXCEPT !.pc = "stopped"]
    /\ ev' = Event("refresh_fetch_err", Head(rf.todo), {}, NoRet)
    /\ UNCHANGED <<cache, now, cl, gets, rounds, asked>>

(* The refresher's fetch returned Err(e): logged, on to the next key.       *)
RefreshFetchErr(r) ==
    /\ rf.pc = "fetch"
    /\ r \in fetch_holder_count(Head(rf.todo))
    /\ ~r.ok
    /\ rf' = NextKey(rf.todo)
    /\ ev' = Event("refresh_fetch_err", Head(rf.todo), {}, NoRet)
    /\ UNCHANGED <<cache, now, cl, gets, rounds, asked>>

(* Under the read lock: request_count and first_seen of the existing entry, *)
(* or (0, now) if there is none.  The read lock is dropped.                 *)
RefreshRead ==
    /\ rf.pc = "read"
    /\ LET m == Head(rf.todo)
       IN  rf' = IF m \in DOMAIN cache
                 THEN [rf EXCEPT !.pc = "write",
                                 !.request_count = cache[m].request_count,
                                 !.first_seen = cache[m].first_seen]
                 ELSE [rf EXCEPT !.pc = "write",
                                 !.request_count = 0,
                                 !.first_seen = rf.now]
    /\ ev' = NoEvent
    /\ UNCHANGED <<cache, now, cl, gets, rounds, asked>>

(* Under the write lock: the entry is inserted; on to the next key.         *)
RefreshWrite ==
    /\ rf.pc = "write"
    /\ LET m == Head(rf.todo)
           entry == HolderCacheEntry(rf.count, rf.now, rf.request_count, rf.first_seen)
       IN  /\ cache' = Insert(cache, m, entry)
           /\ ev' = Event("refresh_write", m, {}, NoRet)
    /\ rf' = NextKey(rf.todo)
    /\ UNCHANGED <<now, cl, gets, rounds, asked>>

----------------------------------------------------------------------------
(* The same two tasks, step by step through the RwLock of the table: every  *)
(* `.read().await` and `.write().await` is a step that waits for the lock,  *)
(* the guard is dropped at the end of its block, and the call of the RPC    *)
(* client made by fetch_holder_count is in flight from the step that starts *)
(* it to the step in which it returns or is dropped.                        *)

Tasks == Clients \cup {Refresher}
NoTask == "nobody"
FreeLock == [writer |-> NoTask, readers |-> {}]

Holds(t) == lock.writer = t \/ t \in lock.readers
write_free == lock.writer = NoTask /\ lock.readers = {}
read_free == lock.writer = NoTask

(* get_holder_count is called: `now` is taken, then the task awaits the     *)
(* write lock.                                                              *)
LkGetEnter(p, m, t) ==
    /\ cl[p].pc = "idle"
    /\ m \in Askable \cap Mints
    /\ gets + rounds < MaxLockOps
    /\ gets' = gets + 1
    /\ t \in ClockReads
    /\ now' = t
    /\ cl' = [cl EXCEPT ![p] = [pc |-> "lookup_wait", mint |-> m, now |-> t]]
    /\ asked' = asked \cup {m}
    /\ ev' = NoEvent
    /\ UNCHANGED <<cache, rf, rounds, lockVars>>

(* The write lock is granted. *)
LkGetLock(p) ==
    /\ cl[p].pc = "lookup_wait"
    /\ write_free
    /\ lock' = [lock EXCEPT !.writer = p]
    /\ cl' = [cl EXCEPT ![p].pc = "lookup"]
    /\ ev' = NoEvent
    /\ UNCHANGED <<cache, now, rf, gets, rounds, asked, rpc, fetched>>

(* Cache hit: request_count is incremented, a clone is returned and the     *)
(* guard is dropped.                                                        *)
LkGetHit(p) ==
    /\ cl[p].pc = "lookup"
    /\ cl[p].mint \in DOMAIN cache
    /\ cache' = [cache EXCEPT ![cl[p].mint].request_count = @ + 1]
    /\ lock' = FreeLock
    /\ cl' = [cl EXCEPT ![p] = IdleCaller]
    /\ ev' = Event("hit", cl[p].mint, {}, Ok(cache'[cl[p].mint]))
    /\ UNCHANGED <<now, rf, gets, rounds, asked, rpc, fetched>>

(* Variant of LkGetMiss: the guard lives until the end of the function, so  *)
(* the lock is held while the fetch is awaited.                             *)
LkGetMissKeepsLock(p) ==
    /\ cl[p].pc = "lookup"
    /\ cl[p].mint \notin DOMAIN cache
    /\ rpc' = rpc \cup {p}
    /\ cl' = [cl EXCEPT ![p].pc = "fetch"]
    /\ ev' = NoEvent
    /\ UNCHANGED <<cache, now, rf, gets, rounds, asked, lock, fetched>>

(* Cache miss: the guard is dropped at the end of the block, then           *)
(* fetch_holder_count calls the RPC client under its timeout.               *)
LkGetMiss(p) ==
    /\ cl[p].pc = "lookup"
    /\ cl[p].mint \notin DOMAIN cache
    /\ lock' = FreeLock
    /\ rpc' = rpc \cup {p}
    /\ cl' = [cl EXCEPT ![p].pc = "fetch"]
    /\ ev' = NoEvent
    /\ UNCHANGED <<cache, now, rf, gets, rounds, asked, fetched>>

(* The call of the RPC client returned accounts in time: count is their     *)
(* number of holders; the task awaits the write lock.                       *)
LkGetFetchOk(p, c) ==
    /\ cl[p].pc = "fetch"
    /\ rpc' = rpc \ {p}
    /\ fetched' = [fetched EXCEPT ![p] = c]
    /\ cl' = [cl EXCEPT ![p].pc = "store_wait"]
    /\ ev' = NoEvent
    /\ UNCHANGED <<cache, now, rf, gets, rounds, asked, lock>>

(* The call of the RPC client returned an error in time: get_holder_count   *)
(* returns it.                                                              *)
LkGetFetchErr(p) ==
    /\ cl[p].pc = "fetch"
    /\ rpc' = rpc \ {p}
    /\ cl' = [cl EXCEPT ![p] = IdleCaller]
    /\ ev' = Event("get_fetch_err", cl[p].mint, {}, Err("Failed to fetch token accounts"))
    /\ UNCHANGED <<cache, now, rf, gets, rounds, asked, lock, fetched>>

(* tokio::time::timeout elapsed first: it returns Err(Elapsed) and the      *)
(* future of the call it owned is dropped with it, which cancels the call;  *)
(* get_holder_count returns the timeout error.                              *)
LkGetFetchTimeout(p) ==
    /\ cl[p].pc = "fetch"
    /\ rpc' = rpc \ {p}
    /\ cl' = [cl EXCEPT ![p] = IdleCaller]
    /\ ev' = Event("get_fetch_err", cl[p].mint, {}, Err("RPC request timed out"))
    /\ UNCHANGED <<cache, now, rf, gets, rounds, asked, lock, fetched>>

(* The write lock is granted for the insert. *)
LkGetStoreLock(p) ==
    /\ cl[p].pc = "store_wait"
    /\ write_free
    /\ lock' = [lock EXCEPT !.writer = p]
    /\ cl' = [cl EXCEPT ![p].pc = "store"]
    /\ ev' = NoEvent
    /\ UNCHANGED <<cache, now, rf, gets, rounds, asked, rpc, fetched>>

(* Under the write lock: evict if the map is full and the key is new,       *)
(* insert, drop the guard, return the entry.                                *)
LkGetStore(p) ==
    /\ cl[p].pc = "store"
    /\ LET m == cl[p].mint
           entry == HolderCacheEntry(fetched[p], cl[p].now, 1, cl[p].now)
       IN  IF Cardinality(DOMAIN cache) >= max_tokens /\ m \notin DOMAIN cache
           THEN \E old_mint \in oldest_mint(cache) :
                   /\ cache' = Insert(Remove(cache, old_mint), m, entry)
                   /\ ev' = Event("store", m,
                                  {[mint |-> old_mint, entry |-> cache[old_mint]]},
                                  Ok(entry))
           ELSE /\ cache' = Insert(cache, m, entry)
                /\ ev' = Event("store", m, {}, Ok(entry))
    /\ lock' = FreeLock
    /\ cl' = [cl EXCEPT ![p] = IdleCaller]
    /\ UNCHANGED <<now, rf, gets, rounds, asked, rpc, fetched>>

(* The timer fires: the task awaits the read lock.                          *)
LkRefreshTick ==
    /\ rf.pc = "tick"
    /\ gets + rounds < MaxLockOps
    /\ rounds' = rounds + 1
    /\ rf' = [IdleRefresher EXCEPT !.pc = "keys_wait"]
    /\ ev' = NoEvent
    /\ UNCHANGED <<cache, now, cl, gets, asked, lockVars>>

(* The read lock is granted. *)
LkRefreshKeysLock ==
    /\ rf.pc = "keys_wait"
    /\ read_free
    /\ lock' = [lock EXCEPT !.readers = @ \cup {Refresher}]
    /\ rf' = [rf EXCEPT !.pc = "keys"]
    /\ ev' = NoEvent
    /\ UNCHANGED <<cache, now, cl, gets, rounds, asked, rpc, fetched>>

(* The keys are collected, the guard is dropped at the end of the block,    *)
(* and the fetch of the first key is started.                               *)
LkRefreshKeys ==
    /\ rf.pc = "keys"
    /\ lock' = [lock EXCEPT !.readers = @ \ {Refresher}]
    /\ \E order \in Orders(DOMAIN cache) :
          IF order = <<>>
          THEN rf' = IdleRefresher /\ UNCHANGED rpc
          ELSE /\ rf' = [IdleRefresher EXCEPT !.pc = "fetch", !.todo = order]
               /\ rpc' = rpc \cup {Refresher}
    /\ ev' = NoEvent
    /\ UNCHANGED <<cache, now, cl, gets, rounds, asked, fetched>>

(* The refresher's call returned accounts: `now` is taken, the task awaits  *)
(* the read lock.                                                           *)
LkRefreshFetchOk(c, t) ==
    /\ rf.pc = "fetch"
    /\ rpc' = rpc \ {Refresher}
    /\ t \in ClockReads
    /\ now' = t
    /\ rf' = [rf EXCEPT !.pc = "read_wait", !.count = c, !.now = t]
    /\ ev' = NoEvent
    /\ UNCHANGED <<cache, cl, gets, rounds, asked, lock, fetched>>

(* The refresher's call failed or timed out: logged; the fetch of the next  *)
(* key is started, or the task waits for the next tick.                     *)
LkRefreshFetchErr ==
    /\ rf.pc = "fetch"
    /\ rf' = NextKey(rf.todo)
    /\ rpc' = IF Len(rf.todo) > 1 THEN rpc ELSE rpc \ {Refresher}
    /\ ev' = Event("refresh_fetch_err", Head(rf.todo), {}, NoRet)
    /\ UNCHANGED <<cache, now, cl, gets, rounds, asked, lock, fetched>>

(* The read lock is granted. *)
LkRefreshReadLock ==
    /\ rf.pc = "read_wait"
    /\ read_free
    /\ lock' = [lock EXCEPT !.readers = @ \cup {Refresher}]
    /\ rf' = [rf EXCEPT !.pc = "read_locked"]
    /\ ev' = NoEvent
    /\ UNCHANGED <<cache, now, cl, gets, rounds, asked, rpc, fetched>>

(* Under the read lock: request_count and first_seen of the existing entry, *)
(* or (0, now); the guard is dropped; the task awaits the write lock.       *)
LkRefreshRead ==
    /\ rf.pc = "read_locked"
    /\ LET m == Head(rf.todo)
       IN  rf' = IF m \in DOMAIN cache
                 THEN [rf EXCEPT !.pc = "write_wait",
                                 !.request_count = cache[m].request_count,
                                 !.first_seen = cache[m].first_seen]
                 ELSE [rf EXCEPT !.pc = "write_wait",
                                 !.request_count = 0,
                                 !.first_seen = rf.now]
    /\ lock' = [lock EXCEPT !.readers = @ \ {Refresher}]
    /\ ev' = NoEvent
    /\ UNCHANGED <<cache, now, cl, gets, rounds, asked, rpc, fetched>>

(* The write lock is granted. *)
LkRefreshWriteLock ==
    /\ rf.pc = "write_wait"
    /\ write_free
    /\ lock' = [lock EXCEPT !.writer = Refresher]
    /\ rf' = [rf EXCEPT !.pc = "write_locked"]
    /\ ev' = NoEvent
    /\ UNCHANGED <<cache, now, cl, gets, rounds, asked, rpc, fetched>>

(* Under the write lock: the entry is inserted; the guard is dropped at the *)
(* end of the match arm; the fetch of the next key is started, or the task  *)
(* waits for the next tick.                                                 *)
LkRefreshWrite ==
    /\ rf.pc = "write_locked"
    /\ LET m == Head(rf.todo)
           entry == HolderCacheEntry(rf.count, rf.now, rf.request_count, rf.first_seen)
       IN  /\ cache' = Insert(cache, m, entry)
           /\ ev' = Event("refresh_write", m, {}, NoRet)
    /\ lock' = FreeLock
    /\ rf' = NextKey(rf.todo)
    /\ rpc' = IF Len(rf.todo) > 1 THEN rpc \cup {Refresher} ELSE rpc
    /\ UNCHANGED <<now, cl, gets, rounds, asked, fetched>>

----------------------------------------------------------------------------
(* SolanaRpcClient::get_token_accounts_by_mint: the retry loop              *)

(* What one getProgramAccounts request can do: answer with accounts, answer *)
(* with no accounts, fail because the endpoint excludes the token program   *)
(* from its secondary indexes, fail otherwise, or not answer before the     *)
(* per-attempt timeout.                                                     *)
Responses == {"accounts", "empty", "no_index", "rpc_error", "hang"}
Answers == Responses \ {"hang"}

base_delay_ms == 1000
backoff_cap_ms == 10000

Min(a, b) == IF a <= b THEN a ELSE b

(* u64 values are kept as four 16-bit limbs, least significant first, so    *)
(* that 64-bit products are computed exactly.                               *)
LimbBase == 2^16

(* u64::overflowing_mul(x, k) for a factor k below 2^15: the product modulo *)
(* 2^64 and whether the mathematical product exceeds u64::MAX.              *)
overflowing_mul(x, k) ==
    LET p1 == x[1] * k
        p2 == x[2] * k + (p1 \div LimbBase)
        p3 == x[3] * k + (p2 \div LimbBase)
        p4 == x[4] * k + (p3 \div LimbBase)
    IN  [value |-> <<p1 % LimbBase, p2 % LimbBase, p3 % LimbBase, p4 % LimbBase>>,
         overflow |-> (p4 \div LimbBase) > 0]

(* 2u64.pow(exp): the power modulo 2^64 (bit exp set, if there is one) and *)
(* whether it overflowed                                                    *)
overflowing_pow2(exp) ==
    [value |-> [i \in 1..4 |-> IF i = (exp \div 16) + 1 THEN 2^(exp % 16) ELSE 0],
     overflow |-> exp >= 64]

(* delay_ms.min(k) for k below 2^16, as a number *)
u64_min(x, k) ==
    IF x[2] = 0 /\ x[3] = 0 /\ x[4] = 0 /\ x[1] <= k THEN x[1] ELSE k

(* Whether base_delay_ms * 2u64.pow(attempt) overflows u64: the power or    *)
(* the product.  A build with overflow checks panics there; a build         *)
(* without them goes on with the wrapped value.                             *)
backoff_overflows(a) ==
    \/ overflowing_pow2(a).overflow
    \/ overflowing_mul(overflowing_pow2(a).value, base_delay_ms).overflow

(* exponential_backoff(attempt), in milliseconds, as computed with wrapping *)
(* u64 arithmetic                                                           *)
exponential_backoff(a) ==
    u64_min(overflowing_mul(overflowing_pow2(a).value, base_delay_ms).value,
            backoff_cap_ms)

(* Variant of inner_get_token_accounts_by_mint: an empty answer is returned *)
(* as Ok, like a non-empty one.                                             *)
inner_accepts_empty(resp) ==
    CASE resp \in {"accounts", "empty"} -> [ok |-> TRUE, error |-> "-"]
      [] resp = "no_index" -> [ok |-> FALSE, error |-> "Public RPC endpoint does not support getProgramAccounts"]
      [] OTHER             -> [ok |-> FALSE, error |-> "Unable to fetch token accounts"]

(* _get_token_accounts_by_mint: the result of one attempt that answered     *)
inner_get_token_accounts_by_mint(resp) ==
    CASE resp = "accounts" -> [ok |-> TRUE, error |-> "-"]
      [] resp = "empty"    -> [ok |-> FALSE, error |-> "Unable to fetch token accounts"]
      [] resp = "no_index" -> [ok |-> FALSE, error |-> "Public RPC endpoint does not support getProgramAccounts"]
      [] OTHER             -> [ok |-> FALSE, error |-> "Unable to fetch token accounts"]

timeout_error == "RPC request timed out"

RpcOk == [tag |-> "ok", error |-> "-", cause |-> "-"]
RpcErr(msg, cause) == [tag |-> "err", error |-> msg, cause |-> cause]
RpcNone == [tag |-> "none", error |-> "-", cause |-> "-"]

(* Variant of FailedAttempt: the test for a remaining attempt is off by one, *)
(* so the task also sleeps after the final attempt.                         *)
FailedAttemptAlwaysSleeps(resp, e) ==
    /\ calls' = Append(calls, resp)
    /\ last_error' = e
    /\ IF attempt < max_retries
       THEN /\ f_pc' = "sleep"
            /\ UNCHANGED <<attempt, f_result>>
       ELSE /\ f_pc' = "returned"
            /\ attempt' = attempt + 1
            /\ f_result' = RpcErr("Failed to get token accounts after all retries", e)
    /\ UNCHANGED <<max_retries, sleeps>>

(* A failed attempt: last_error is set; if attempts remain the task sleeps  *)
(* exponential_backoff(attempt), otherwise the loop ends and the call       *)
(* returns last_error wrapped in the after-all-retries context.             *)
FailedAttempt(resp, e) ==
    /\ calls' = Append(calls, resp)
    /\ last_error' = e
    /\ IF attempt < max_retries - 1
       THEN /\ f_pc' = "sleep"
            /\ UNCHANGED <<attempt, f_result>>
       ELSE /\ f_pc' = "returned"
            /\ attempt' = attempt + 1
            /\ f_result' = RpcErr("Failed to get token accounts after all retries", e)
    /\ UNCHANGED <<max_retries, sleeps>>

(* Variant of AttemptOk: a successful attempt is recorded but the loop goes *)
(* on to the next iteration, and returns after the last one.                *)
AttemptOkGoesOn(resp) ==
    /\ f_pc = "loop"
    /\ attempt < max_retries
    /\ resp \in Answers
    /\ inner_get_token_accounts_by_mint(resp).ok
    /\ calls' = Append(calls, resp)
    /\ IF attempt < max_retries - 1
       THEN /\ f_pc' = "sleep"
            /\ UNCHANGED f_result
       ELSE /\ f_pc' = "returned"
            /\ f_result' = RpcOk
    /\ UNCHANGED <<max_retries, attempt, last_error, sleeps>>

(* match arm Ok(Ok(accounts)): return Ok(accounts) *)
AttemptOk(resp) ==
    /\ f_pc = "loop"
    /\ attempt < max_retries
    /\ resp \in Answers
    /\ inner_get_token_accounts_by_mint(resp).ok
    /\ calls' = Append(calls, resp)
    /\ f_pc' = "returned"
    /\ f_result' = RpcOk
    /\ UNCHANGED <<max_retries, attempt, last_error, sleeps>>

(* match arm Ok(Err(e)) *)
AttemptErr(resp) ==
    /\ f_pc = "loop"
    /\ attempt < max_retries
    /\ resp \in Answers
    /\ ~inner_get_token_accounts_by_mint(resp).ok
    /\ FailedAttempt(resp, inner_get_token_accounts_by_mint(resp).error)

(* match arm Err(_): the per-attempt timeout elapsed *)
AttemptTimeout ==
    /\ f_pc = "loop"
    /\ attempt < max_retries
    /\ FailedAttempt("hang", timeout_error)

(* exponential_backoff(attempt) is computed, then sleep(delay).await and    *)
(* the next iteration.  If the computation overflows, the task either       *)
(* panics or sleeps the wrapped delay, depending on the build.              *)
Backoff ==
    /\ f_pc = "sleep"
    /\ \/ /\ sleeps' = Append(sleeps, exponential_backoff(attempt))
          /\ attempt' = attempt + 1
          /\ f_pc' = "loop"
       \/ /\ backoff_overflows(attempt)
          /\ f_pc' = "panicked"
          /\ UNCHANGED <<attempt, sleeps>>
    /\ UNCHANGED <<max_retries, last_error, calls, f_result>>

(* max_retries = 0: the loop body never runs and last_error.unwrap()        *)
(* panics on None.                                                          *)
UnwrapNone ==
    /\ f_pc = "loop"
    /\ max_retries = 0
    /\ f_pc' = "panicked"
    /\ UNCHANGED <<max_retries, attempt, last_error, calls, sleeps, f_result>>

----------------------------------------------------------------------------
(* token_monitor.rs: extract_holders                                        *)

(* An account of a batch: the length of its data, the eight bytes at 64..72 *)
(* (the amount, little-endian) and the 32 bytes at 32..64 (the owner), as   *)
(* they are if the data is long enough to hold them.  Owner 0 is the        *)
(* all-zero key, Pubkey::default().                                         *)
Account(len, amount_bytes, owner) ==
    [len |-> len, amount_bytes |-> amount_bytes, owner |-> owner]

DataLens == {71, 72, 165}
AmountBytes == {<<0, 0, 0, 0, 0, 0, 0, 0>>,
                <<1, 0, 0, 0, 0, 0, 0, 0>>,
                <<0, 0, 0, 0, 0, 0, 0, 128>>}
Owners == {0, 1, 2}
PubkeyDefault == 0
Accounts == {Account(l, a, o) : l \in DataLens, a \in AmountBytes, o \in Owners}

(* Every batch of at most n accounts *)
RECURSIVE Batches(_)
Batches(n) ==
    IF n = 0
    THEN {<<>>}
    ELSE Batches(n - 1) \cup {Append(b, a) : b \in {x \in Batches(n - 1) : Len(x) = n - 1},
                                             a \in Accounts}

(* u64::from_le_bytes, as four 16-bit limbs *)
u64_from_le_bytes(b) == [j \in 1..4 |-> b[2 * j - 1] + 256 * b[2 * j]]
u64_is_positive(x) == \E j \in 1..4 : x[j] > 0

HoldersOk(h) == [ok |-> TRUE, holders |-> h]
NoHolders == [ok |-> FALSE, holders |-> {}]

(* Variant of extract_account: the balance is not looked at.                *)
extract_account_any_balance(h, account) ==
    IF account.len < 72
    THEN h
    ELSE IF account.owner # PubkeyDefault THEN h \cup {account.owner} ELSE h

(* One iteration of the loop of extract_holders over `accounts`: the set of *)
(* holders after the account, given the set before it.                      *)
extract_account(h, account) ==
    IF account.len < 72
    THEN h
    ELSE LET amount == u64_from_le_bytes(account.amount_bytes)
         IN  IF u64_is_positive(amount)
             THEN IF account.len >= 64
                  THEN IF account.owner # PubkeyDefault
                       THEN h \cup {account.owner}
                       ELSE h
                  ELSE h
             ELSE h

(* The loop over the accounts of the batch, in order, started with the set h *)
RECURSIVE extract_loop(_, _)
extract_loop(h, batch) ==
    IF batch = <<>>
    THEN h
    ELSE extract_loop(extract_account(h, Head(batch)), Tail(batch))

extract_holders(batch) == HoldersOk(extract_loop({}, batch))

(* The call of extract_holders *)
Extract ==
    /\ e_pc = "call"
    /\ holders' = extract_holders(accounts)
    /\ e_pc' = "returned"
    /\ UNCHANGED accounts

----------------------------------------------------------------------------
(* token_monitor.rs: HolderStats, Metrics                                   *)

None == [some |-> FALSE, value |-> 0]
Some(v) == [some |-> TRUE, value |-> v]

Metrics_new ==
    [min_holders |-> None, max_holders |-> None, total_polls |-> 0,
     total_holders_sum |-> 0, alerts |-> <<>>]

(* An f64 that is the quotient of two integers, den > 0 *)
Ratio(n, d) == [num |-> n, den |-> d]

(* Comparisons of such an f64 with an integer literal *)
f64_ge(x, k) == x.num >= k * x.den
f64_le(x, k) == x.num <= k * x.den
f64_gt(x, k) == x.num > k * x.den
f64_eq(x, k) == x.num = k * x.den

HolderStats(c, ts, ch, pct) ==
    [count |-> c, timestamp |-> ts, change |-> ch, change_percent |-> pct]
NoStats == HolderStats(0, 0, 0, Ratio(0, 1))

(* Variant of calculate_stats: the difference is taken the other way round. *)
calculate_stats_swapped(current_count, prev_count, timestamp) ==
    IF prev_count.some
    THEN LET prev == prev_count.value
             diff == prev - current_count
             percent == IF prev > 0
                        THEN Ratio(diff * 100, prev)
                        ELSE IF current_count > 0 THEN Ratio(100, 1) ELSE Ratio(0, 1)
         IN  HolderStats(current_count, timestamp, diff, percent)
    ELSE HolderStats(current_count, timestamp, 0, Ratio(0, 1))

(* Variant of calculate_stats: with a previous count of 0 the percentage is *)
(* computed like any other, with 1 for the divisor.                         *)
calculate_stats_no_zero_case(current_count, prev_count, timestamp) ==
    IF prev_count.some
    THEN LET prev == prev_count.value
             diff == current_count - prev
             percent == IF prev > 0
                        THEN Ratio(diff * 100, prev)
                        ELSE Ratio(diff * 100, 1)
         IN  HolderStats(current_count, timestamp, diff, percent)
    ELSE HolderStats(current_count, timestamp, 0, Ratio(0, 1))

(* calculate_stats(current_count, previous_count), with the clock value it  *)
(* reads.  The counts are lengths of sets held in memory, far below 2^63,   *)
(* so the casts to i64 keep their values and the difference cannot          *)
(* overflow; on such counts (diff / prev) * 100.0 compares with 0, 50, 100  *)
(* and -20 as the exact quotient does.                                      *)
calculate_stats(current_count, prev_count, timestamp) ==
    IF prev_count.some
    THEN LET prev == prev_count.value
             diff == current_count - prev
             percent == IF prev > 0
                        THEN Ratio(diff * 100, prev)
                        ELSE IF current_count > 0 THEN Ratio(100, 1) ELSE Ratio(0, 1)
         IN  HolderStats(current_count, timestamp, diff, percent)
    ELSE HolderStats(current_count, timestamp, 0, Ratio(0, 1))

(* Variant of Metrics::update: the maximum is compared with min_holders.    *)
Metrics_update_max_vs_min(m, holder_count) ==
    [m EXCEPT !.total_polls = @ + 1,
              !.total_holders_sum = @ + holder_count,
              !.min_holders = IF ~m.min_holders.some \/ holder_count < m.min_holders.value
                              THEN Some(holder_count) ELSE @,
              !.max_holders = IF ~m.max_holders.some \/ holder_count > m.min_holders.value
                              THEN Some(holder_count) ELSE @]

(* Metrics::update *)
Metrics_update(m, holder_count) ==
    [m EXCEPT !.total_polls = @ + 1,
              !.total_holders_sum = @ + holder_count,
              !.min_holders = IF ~m.min_holders.some \/ holder_count < m.min_holders.value
                              THEN Some(holder_count) ELSE @,
              !.max_holders = IF ~m.max_holders.some \/ holder_count > m.max_holders.value
                              THEN Some(holder_count) ELSE @]

(* Metrics::add_alert *)
Metrics_add_alert(m, message) == [m EXCEPT !.alerts = Append(@, message)]

(* The two messages check_alerts formats *)
GrowthAlert(st, prev) ==
    [kind |-> "GROWTH", change |-> st.change, prev |-> prev, count |-> st.count]
DropAlert(st, prev) ==
    [kind |-> "DROP", change |-> st.change, prev |-> prev, count |-> st.count]

(* Variant of check_alerts: the thresholds are exclusive.                   *)
check_alerts_strict(st, prev_count, m) ==
    IF prev_count.some
    THEN LET m1 == IF f64_gt(st.change_percent, 50)
                   THEN Metrics_add_alert(m, GrowthAlert(st, prev_count.value))
                   ELSE m
         IN  IF ~f64_ge(st.change_percent, -20)
             THEN Metrics_add_alert(m1, DropAlert(st, prev_count.value))
             ELSE m1
    ELSE m

(* check_alerts(stats, previous_count, metrics): metrics afterwards *)
check_alerts(st, prev_count, m) ==
    IF prev_count.some
    THEN LET m1 == IF f64_ge(st.change_percent, 50)
                   THEN Metrics_add_alert(m, GrowthAlert(st, prev_count.value))
                   ELSE m
         IN  IF f64_le(st.change_percent, -20)
             THEN Metrics_add_alert(m1, DropAlert(st, prev_count.value))
             ELSE m1
    ELSE m

(* Metrics used on its own: the counts update is called with, the messages  *)
(* add_alert is called with, and how many calls of each are followed.       *)
MaxUpdates == 4
MaxAlerts == 2
UpdateCounts == {0, 8, 10, 15}
AlertMessages ==
    {GrowthAlert(HolderStats(15, 0, 5, Ratio(50, 1)), 10),
     DropAlert(HolderStats(8, 0, -2, Ratio(-20, 1)), 10)}

(* metrics.update(holder_count) *)
MetricsUpdate(holder_count) ==
    /\ Len(observed) < MaxUpdates
    /\ metrics' = Metrics_update(metrics, holder_count)
    /\ observed' = Append(observed, holder_count)
    /\ UNCHANGED <<m_pc, shutdown, previous_count, stats>>

(* metrics.add_alert(message) *)
MetricsAddAlert(message) ==
    /\ Len(metrics.alerts) < MaxAlerts
    /\ metrics' = Metrics_add_alert(metrics, message)
    /\ UNCHANGED <<m_pc, shutdown, previous_count, stats, observed>>

----------------------------------------------------------------------------
(* main.rs: the monitoring loop                                             *)

(* The batches a successful fetch hands to a cycle: k accounts of k         *)
(* different holders, or one account with no balance.  A fetch never        *)
(* succeeds with an empty batch.                                            *)
HolderCounts == {8, 10, 15}
Holding(k) == [i \in 1..k |-> Account(165, <<1, 0, 0, 0, 0, 0, 0, 0>>, i)]
MonitorBatches ==
    {Holding(k) : k \in HolderCounts}
    \cup {<<Account(165, <<0, 0, 0, 0, 0, 0, 0, 0>>, 1)>>}

(* Ctrl+C: the signal task sets the flag *)
CtrlC ==
    /\ m_pc \notin {"idle", "stopped"}
    /\ ~shutdown
    /\ shutdown' = TRUE
    /\ UNCHANGED <<m_pc, previous_count, metrics, stats, observed>>

(* Top of the loop with the flag set: break, the final metrics are printed  *)
MonitorStop ==
    /\ m_pc = "check"
    /\ shutdown
    /\ m_pc' = "stopped"
    /\ UNCHANGED <<shutdown, previous_count, metrics, stats, observed>>
    /\ UNCHANGED fetchVars

(* Top of the loop with the flag clear: monitor_holders is called and       *)
(* starts get_token_accounts_by_mint.                                       *)
MonitorStartCycle ==
    /\ m_pc = "check"
    /\ ~shutdown
    /\ m_pc' = "fetch"
    /\ f_pc' = "loop"
    /\ attempt' = 0
    /\ last_error' = "-"
    /\ calls' = <<>>
    /\ sleeps' = <<>>
    /\ f_result' = RpcNone
    /\ UNCHANGED <<max_retries, shutdown, previous_count, metrics, stats, observed>>

(* Variant of MonitorCycleErr: the error is propagated out of the loop.     *)
MonitorCycleErrExits ==
    /\ m_pc = "fetch"
    /\ f_pc = "returned"
    /\ f_result.tag = "err"
    /\ m_pc' = "stopped"
    /\ UNCHANGED <<shutdown, previous_count, metrics, stats, observed>>
    /\ UNCHANGED fetchVars

(* Variant of MonitorCycleErr: a failed cycle forgets the previous count.   *)
MonitorCycleErrForgets ==
    /\ m_pc = "fetch"
    /\ f_pc = "returned"
    /\ f_result.tag = "err"
    /\ m_pc' = "wait"
    /\ previous_count' = None
    /\ UNCHANGED <<shutdown, metrics, stats, observed>>
    /\ UNCHANGED fetchVars

(* The fetch returned Err: monitor_holders returns it, main logs the error  *)
(* chain and goes on to wait for the next tick.                             *)
MonitorCycleErr ==
    /\ m_pc = "fetch"
    /\ f_pc = "returned"
    /\ f_result.tag = "err"
    /\ m_pc' = "wait"
    /\ UNCHANGED <<shutdown, previous_count, metrics, stats, observed>>
    /\ UNCHANGED fetchVars

(* The fetch returned Ok(accounts): the holders are extracted and counted,  *)
(* the statistics computed, the metrics updated, the alerts checked;        *)
(* monitor_holders returns Ok(count) and main stores it in previous_count.  *)
MonitorCycleOk(batch, t) ==
    /\ m_pc = "fetch"
    /\ f_pc = "returned"
    /\ f_result.tag = "ok"
    /\ metrics.total_polls < MaxPolls
    /\ t \in ClockReads
    /\ now' = t
    /\ LET holder_count == Cardinality(extract_holders(batch).holders)
           st == calculate_stats(holder_count, previous_count, t)
       IN  /\ stats' = st
           /\ metrics' = check_alerts(st, previous_count,
                                      Metrics_update(metrics, holder_count))
           /\ previous_count' = Some(holder_count)
           /\ observed' = Append(observed, holder_count)
    /\ m_pc' = "wait"
    /\ UNCHANGED shutdown
    /\ UNCHANGED fetchVars

(* interval_timer.tick().await returns *)
MonitorTick ==
    /\ m_pc = "wait"
    /\ m_pc' = "check"
    /\ UNCHANGED <<shutdown, previous_count, metrics, stats, observed>>
    /\ UNCHANGED fetchVars

----------------------------------------------------------------------------
(* api_server.rs: ApiState, the cache whose reads check the age of the      *)
(* entry against a time to live                                             *)

(* The values cache_ttl is configured with (seconds) *)
Ttls == {0, 1, 2}

(* The mint addresses ApiState is asked for, and the `mints`                 *)
(* start_cache_refresher is called with.                                    *)
ApiMints == {"m1", "m2"}
refresher_mints == <<"m1", "m2">>

CacheEntry(c, ts, ttl) == [count |-> c, timestamp |-> ts, ttl |-> ttl]
NoCacheEntries == [x \in {} |-> CacheEntry(0, 0, 0)]

HolderCountResponse(m, n, cached, ts) ==
    [mint |-> m, holders |-> n, cached |-> cached, timestamp |-> ts]

ApiOk(resp) == [tag |-> "ok", response |-> resp, error |-> "-"]
ApiErr(msg) == [tag |-> "err", response |-> HolderCountResponse(NoMint, 0, FALSE, 0), error |-> msg]
ApiNoRet == [tag |-> "none", response |-> HolderCountResponse(NoMint, 0, FALSE, 0), error |-> "-"]

ApiEvent(op, m, r) == [op |-> op, mint |-> m, ret |-> r]
ApiNoEvent == ApiEvent("-", NoMint, ApiNoRet)

ApiIdleCaller == [pc |-> "idle", mint |-> NoMint]

(* Instant::elapsed of a timestamp *)
elapsed(ts) == a_now - ts

(* Variant of is_expired: an entry expires only after its time to live.     *)
is_expired_late(entry) == elapsed(entry.timestamp) > entry.ttl

(* CacheEntry::is_expired and CacheEntry::is_valid *)
is_expired(entry) == elapsed(entry.timestamp) >= entry.ttl
is_valid(entry) == ~is_expired(entry)

(* ApiState::fetch_holder_count: every value the call can return.           *)
api_fetch_holder_count(m) ==
    IF m \notin Mints
    THEN {FetchErr("Invalid mint address")}
    ELSE {FetchOk(c) : c \in Counts} \cup {FetchErr("Failed to fetch token accounts")}

(* Time passes. *)
ApiTick ==
    /\ a_now < MaxInstant
    /\ a_now' = a_now + 1
    /\ a_ev' = ApiNoEvent
    /\ UNCHANGED <<a_cache, a_cl, a_rf, cache_ttl>>

(* get_holder_count: under the read lock an entry is found and is valid;    *)
(* its count is returned with cached: true.                                 *)
ApiGetHit(p, m) ==
    /\ a_cl[p].pc = "idle"
    /\ m \in DOMAIN a_cache
    /\ is_valid(a_cache[m])
    /\ a_ev' = ApiEvent("hit", m,
                        ApiOk(HolderCountResponse(m, a_cache[m].count, TRUE,
                                                  elapsed(a_cache[m].timestamp))))
    /\ UNCHANGED <<a_cache, a_now, a_cl, a_rf, cache_ttl>>

(* get_holder_count: no entry, or an entry that is not valid; the read lock *)
(* is dropped and the caller awaits fetch_holder_count.  For a string that  *)
(* is no mint address fetch_holder_count returns the parse error at once.   *)
ApiGetMiss(p, m) ==
    /\ a_cl[p].pc = "idle"
    /\ ~(m \in DOMAIN a_cache /\ is_valid(a_cache[m]))
    /\ IF m \in Mints
       THEN /\ a_cl' = [a_cl EXCEPT ![p] = [pc |-> "fetch", mint |-> m]]
            /\ a_ev' = ApiEvent("miss", m, ApiNoRet)
       ELSE /\ \E r \in api_fetch_holder_count(m) :
                  a_ev' = ApiEvent("get_invalid", m, ApiErr(r.error))
            /\ UNCHANGED a_cl
    /\ UNCHANGED <<a_cache, a_now, a_rf, cache_ttl>>

(* The caller's fetch returned Err(e): `?` returns it.                      *)
ApiFetchErr(p, r) ==
    /\ a_cl[p].pc = "fetch"
    /\ r \in api_fetch_holder_count(a_cl[p].mint)
    /\ ~r.ok
    /\ a_cl' = [a_cl EXCEPT ![p] = ApiIdleCaller]
    /\ a_ev' = ApiEvent("fetch_err", a_cl[p].mint, ApiErr(r.error))
    /\ UNCHANGED <<a_cache, a_now, a_rf, cache_ttl>>

(* The caller's fetch returned Ok(count): under the write lock the entry is *)
(* inserted with timestamp Instant::now(); the response has cached: false.  *)
ApiStore(p, r) ==
    /\ a_cl[p].pc = "fetch"
    /\ r \in api_fetch_holder_count(a_cl[p].mint)
    /\ r.ok
    /\ a_cache' = Insert(a_cache, a_cl[p].mint, CacheEntry(r.count, a_now, cache_ttl))
    /\ a_cl' = [a_cl EXCEPT ![p] = ApiIdleCaller]
    /\ a_ev' = ApiEvent("store", a_cl[p].mint,
                        ApiOk(HolderCountResponse(a_cl[p].mint, r.count, FALSE, 0)))
    /\ UNCHANGED <<a_now, a_rf, cache_ttl>>

(* The refresher's fetch of the next mint returned Ok(count): the entry is  *)
(* inserted; the task sleeps 500 ms.                                        *)
ApiRefreshStore(r) ==
    /\ a_rf.pc = "fetch"
    /\ r \in api_fetch_holder_count(Head(a_rf.todo))
    /\ r.ok
    /\ a_cache' = Insert(a_cache, Head(a_rf.todo), CacheEntry(r.count, a_now, cache_ttl))
    /\ a_rf' = [a_rf EXCEPT !.pc = "pause"]
    /\ a_ev' = ApiEvent("refresh_store", Head(a_rf.todo), ApiNoRet)
    /\ UNCHANGED <<a_now, a_cl, cache_ttl>>

(* The refresher's fetch returned Err(e): logged; the task sleeps 500 ms.   *)
ApiRefreshErr(r) ==
    /\ a_rf.pc = "fetch"
    /\ r \in api_fetch_holder_count(Head(a_rf.todo))
    /\ ~r.ok
    /\ a_rf' = [a_rf EXCEPT !.pc = "pause"]
    /\ a_ev' = ApiEvent("refresh_err", Head(a_rf.todo), ApiNoRet)
    /\ UNCHANGED <<a_cache, a_now, a_cl, cache_ttl>>

(* After the 500 ms: the next mint, or sleep(cache_ttl) after the last one. *)
ApiRefreshPause ==
    /\ a_rf.pc = "pause"
    /\ a_rf' = IF Len(a_rf.todo) > 1
               THEN [a_rf EXCEPT !.pc = "fetch", !.todo = Tail(a_rf.todo)]
               ELSE [pc |-> "sleep", todo |-> <<>>, since |-> a_now]
    /\ a_ev' = ApiNoEvent
    /\ UNCHANGED <<a_cache, a_now, a_cl, cache_ttl>>

(* sleep(cache_ttl) is over: the next cycle starts.                         *)
ApiRefreshWake ==
    /\ a_rf.pc = "sleep"
    /\ elapsed(a_rf.since) >= cache_ttl
    /\ a_rf' = [pc |-> "fetch", todo |-> refresher_mints, since |-> a_rf.since]
    /\ a_ev' = ApiNoEvent
    /\ UNCHANGED <<a_cache, a_now, a_cl, cache_ttl>>

----------------------------------------------------------------------------
FetchIdle ==
    /\ max_retries = 0
    /\ f_pc = "idle"
    /\ attempt = 0
    /\ last_error = "-"
    /\ calls = <<>>
    /\ sleeps = <<>>
    /\ f_result = RpcNone

CacheInit ==
    /\ cache = EmptyMap
    /\ now = 0
    /\ cl = [p \in Clients |-> IdleCaller]
    /\ rf = IdleRefresher
    /\ ev = NoEvent
    /\ gets = 0
    /\ rounds = 0
    /\ asked = {}

ExtractIdle ==
    /\ accounts = <<>>
    /\ e_pc = "idle"
    /\ holders = NoHolders

MonitorIdle ==
    /\ m_pc = "idle"
    /\ shutdown = FALSE
    /\ previous_count = None
    /\ metrics = Metrics_new
    /\ stats = NoStats
    /\ observed = <<>>

ApiIdle ==
    /\ a_cache = NoCacheEntries
    /\ a_now = 0
    /\ a_cl = [p \in Clients |-> ApiIdleCaller]
    /\ a_rf = [pc |-> "off", todo |-> <<>>, since |-> 0]
    /\ a_ev = ApiNoEvent
    /\ cache_ttl = 0

LockIdle ==
    /\ lock = FreeLock
    /\ rpc = {}
    /\ fetched = [t \in Tasks |-> 0]

Init == CacheInit /\ FetchIdle /\ ExtractIdle /\ MonitorIdle /\ ApiIdle /\ LockIdle

Next ==
    \/ \E p \in Clients, m \in Mints \cup {BadMint} : GetHit(p, m) /\ UNCHANGED <<fetchVars, extractVars, monVars, apiVars, lockVars>>
    \/ \E p \in Clients, t \in Seconds : GetInvalid(p, BadMint, t) /\ UNCHANGED <<fetchVars, extractVars, monVars, apiVars, lockVars>>
    \/ \E p \in Clients : GetHoldersBadRequest(p, BadMint) /\ UNCHANGED <<fetchVars, extractVars, monVars, apiVars, lockVars>>
    \/ \E p \in Clients, m \in Mints, t \in Seconds :
          GetMiss(p, m, t) /\ UNCHANGED <<fetchVars, extractVars, monVars, apiVars, lockVars>>
    \/ \E p \in Clients : \E r \in fetch_holder_count(cl[p].mint) :
          GetFetchErr(p, r) /\ UNCHANGED <<fetchVars, extractVars, monVars, apiVars, lockVars>>
    \/ \E p \in Clients, c \in Counts : GetStore(p, FetchOk(c)) /\ UNCHANGED <<fetchVars, extractVars, monVars, apiVars, lockVars>>
    \/ RefreshTick /\ UNCHANGED <<fetchVars, extractVars, monVars, apiVars, lockVars>>
    \/ \E c \in Counts, t \in Seconds :
          RefreshFetchOk(FetchOk(c), t) /\ UNCHANGED <<fetchVars, extractVars, monVars, apiVars, lockVars>>
    \/ (\E r \in fetch_holder_count(IF rf.todo = <<>> THEN NoMint ELSE Head(rf.todo)) :
          RefreshFetchErr(r)) /\ UNCHANGED <<fetchVars, extractVars, monVars, apiVars, lockVars>>
    \/ RefreshRead /\ UNCHANGED <<fetchVars, extractVars, monVars, apiVars, lockVars>>
    \/ RefreshWrite /\ UNCHANGED <<fetchVars, extractVars, monVars, apiVars, lockVars>>

Spec == Init /\ [][Next]_vars

(* The refresh task running for ever beside the callers.  The timer of the  *)
(* task always fires again, a fetch ends (fetch_holder_count has a timeout) *)
(* and the lock is granted to a task that waits for it.                     *)
RefreshFetchEnds ==
    \/ \E c \in Counts, t \in Seconds : RefreshFetchOk(FetchOk(c), t)
    \/ \E r \in fetch_holder_count(IF rf.todo = <<>> THEN NoMint ELSE Head(rf.todo)) :
          RefreshFetchErr(r)

(* One caller replaces, hits and evicts entries beside the task.            *)
RefreshCallers == {"c1"}

NextRefresh ==
    \/ \E p \in RefreshCallers, m \in Mints : GetHit(p, m) /\ UNCHANGED <<fetchVars, extractVars, monVars, apiVars, lockVars>>
    \/ \E p \in RefreshCallers, m \in Mints, t \in Seconds :
          GetMiss(p, m, t) /\ UNCHANGED <<fetchVars, extractVars, monVars, apiVars, lockVars>>
    \/ \E p \in RefreshCallers : \E r \in fetch_holder_count(cl[p].mint) :
          GetFetchErr(p, r) /\ UNCHANGED <<fetchVars, extractVars, monVars, apiVars, lockVars>>
    \/ \E p \in RefreshCallers, c \in Counts : GetStore(p, FetchOk(c)) /\ UNCHANGED <<fetchVars, extractVars, monVars, apiVars, lockVars>>
    \/ RefreshTickAgain /\ UNCHANGED <<fetchVars, extractVars, monVars, apiVars, lockVars>>
    \/ \E c \in Counts, t \in Seconds :
          RefreshFetchOk(FetchOk(c), t) /\ UNCHANGED <<fetchVars, extractVars, monVars, apiVars, lockVars>>
    \/ (\E r \in fetch_holder_count(IF rf.todo = <<>> THEN NoMint ELSE Head(rf.todo)) :
          RefreshFetchErr(r)) /\ UNCHANGED <<fetchVars, extractVars, monVars, apiVars, lockVars>>
    \/ RefreshRead /\ UNCHANGED <<fetchVars, extractVars, monVars, apiVars, lockVars>>
    \/ RefreshWrite /\ UNCHANGED <<fetchVars, extractVars, monVars, apiVars, lockVars>>

RefreshFairness ==
    /\ WF_vars(RefreshTickAgain /\ UNCHANGED <<fetchVars, extractVars, monVars, apiVars, lockVars>>)
    /\ WF_vars(RefreshFetchEnds /\ UNCHANGED <<fetchVars, extractVars, monVars, apiVars, lockVars>>)
    /\ WF_vars(RefreshRead /\ UNCHANGED <<fetchVars, extractVars, monVars, apiVars, lockVars>>)
    /\ WF_vars(RefreshWrite /\ UNCHANGED <<fetchVars, extractVars, monVars, apiVars, lockVars>>)

SpecRefreshFair == Init /\ [][NextRefresh]_vars /\ RefreshFairness

(* The cache after get_holder_count has been called for two mints at second *)
(* 0 and both misses have stored their entries: the table is full.  gets    *)
(* and rounds count from this state on.                                     *)
InitResident ==
    /\ \E c1, c2 \in Counts :
          cache = [k \in {MintOrder[1], MintOrder[2]} |->
                      HolderCacheEntry(IF k = MintOrder[1] THEN c1 ELSE c2, 0, 1, 0)]
    /\ now = 0
    /\ cl = [p \in Clients |-> IdleCaller]
    /\ rf = IdleRefresher
    /\ ev = NoEvent
    /\ gets = 0
    /\ rounds = 0
    /\ asked = {MintOrder[1], MintOrder[2]}
    /\ FetchIdle /\ ExtractIdle /\ MonitorIdle /\ ApiIdle /\ LockIdle

SpecResident == InitResident /\ [][Next]_vars

(* The callers and the refresh task, step by step through the lock, from a  *)
(* full table.                                                              *)
NextLock ==
    \/ (\E p \in Clients, m \in Mints, t \in Seconds : LkGetEnter(p, m, t))
          /\ UNCHANGED <<fetchVars, extractVars, monVars, apiVars>>
    \/ (\E p \in Clients : LkGetLock(p)) /\ UNCHANGED <<fetchVars, extractVars, monVars, apiVars>>
    \/ (\E p \in Clients : LkGetHit(p)) /\ UNCHANGED <<fetchVars, extractVars, monVars, apiVars>>
    \/ (\E p \in Clients : LkGetMiss(p)) /\ UNCHANGED <<fetchVars, extractVars, monVars, apiVars>>
    \/ (\E p \in Clients, c \in Counts : LkGetFetchOk(p, c))
          /\ UNCHANGED <<fetchVars, extractVars, monVars, apiVars>>
    \/ (\E p \in Clients : LkGetFetchErr(p)) /\ UNCHANGED <<fetchVars, extractVars, monVars, apiVars>>
    \/ (\E p \in Clients : LkGetFetchTimeout(p))
          /\ UNCHANGED <<fetchVars, extractVars, monVars, apiVars>>
    \/ (\E p \in Clients : LkGetStoreLock(p)) /\ UNCHANGED <<fetchVars, extractVars, monVars, apiVars>>
    \/ (\E p \in Clients : LkGetStore(p)) /\ UNCHANGED <<fetchVars, extractVars, monVars, apiVars>>
    \/ LkRefreshTick /\ UNCHANGED <<fetchVars, extractVars, monVars, apiVars>>
    \/ LkRefreshKeysLock /\ UNCHANGED <<fetchVars, extractVars, monVars, apiVars>>
    \/ LkRefreshKeys /\ UNCHANGED <<fetchVars, extractVars, monVars, apiVars>>
    \/ (\E c \in Counts, t \in Seconds : LkRefreshFetchOk(c, t))
          /\ UNCHANGED <<fetchVars, extractVars, monVars, apiVars>>
    \/ LkRefreshFetchErr /\ UNCHANGED <<fetchVars, extractVars, monVars, apiVars>>
    \/ LkRefreshReadLock /\ UNCHANGED <<fetchVars, extractVars, monVars, apiVars>>
    \/ LkRefreshRead /\ UNCHANGED <<fetchVars, extractVars, monVars, apiVars>>
    \/ LkRefreshWriteLock /\ UNCHANGED <<fetchVars, extractVars, monVars, apiVars>>
    \/ LkRefreshWrite /\ UNCHANGED <<fetchVars, extractVars, monVars, apiVars>>

SpecLock == InitResident /\ [][NextLock]_vars

(* ApiState built with any cache_ttl of Ttls, its refresher started or not, *)
(* and callers of get_holder_count.                                         *)
InitApi ==
    /\ CacheInit /\ FetchIdle /\ ExtractIdle /\ MonitorIdle /\ LockIdle
    /\ a_cache = NoCacheEntries
    /\ a_now = 0
    /\ a_cl = [p \in Clients |-> ApiIdleCaller]
    /\ a_rf \in {[pc |-> "off", todo |-> <<>>, since |-> 0],
                 [pc |-> "fetch", todo |-> refresher_mints, since |-> 0]}
    /\ a_ev = ApiNoEvent
    /\ cache_ttl \in Ttls

NextApi ==
    \/ ApiTick /\ UNCHANGED <<cacheVars, fetchVars, extractVars, monVars, lockVars>>
    \/ (\E p \in Clients, m \in ApiMints : ApiGetHit(p, m))
          /\ UNCHANGED <<cacheVars, fetchVars, extractVars, monVars, lockVars>>
    \/ (\E p \in Clients, m \in ApiMints \cup {BadMint} : ApiGetMiss(p, m))
          /\ UNCHANGED <<cacheVars, fetchVars, extractVars, monVars, lockVars>>
    \/ (\E p \in Clients : \E r \in api_fetch_holder_count(a_cl[p].mint) : ApiFetchErr(p, r))
          /\ UNCHANGED <<cacheVars, fetchVars, extractVars, monVars, lockVars>>
    \/ (\E p \in Clients, c \in Counts : ApiStore(p, FetchOk(c)))
          /\ UNCHANGED <<cacheVars, fetchVars, extractVars, monVars, lockVars>>
    \/ (\E c \in Counts : ApiRefreshStore(FetchOk(c)))
          /\ UNCHANGED <<cacheVars, fetchVars, extractVars, monVars, lockVars>>
    \/ ApiRefreshErr(FetchErr("Failed to fetch token accounts"))
          /\ UNCHANGED <<cacheVars, fetchVars, extractVars, monVars, lockVars>>
    \/ ApiRefreshPause /\ UNCHANGED <<cacheVars, fetchVars, extractVars, monVars, lockVars>>
    \/ ApiRefreshWake /\ UNCHANGED <<cacheVars, fetchVars, extractVars, monVars, lockVars>>

SpecApi == InitApi /\ [][NextApi]_vars

(* One call of get_token_accounts_by_mint, on a client built with any       *)
(* max_retries in 0..MaxRetries.                                            *)
InitFetch ==
    /\ CacheInit /\ ExtractIdle /\ MonitorIdle /\ ApiIdle /\ LockIdle
    /\ max_retries \in 0..MaxRetries
    /\ f_pc = "loop"
    /\ attempt = 0
    /\ last_error = "-"
    /\ calls = <<>>
    /\ sleeps = <<>>
    /\ f_result = RpcNone

NextFetch ==
    \/ (\E resp \in Responses : AttemptOk(resp)) /\ UNCHANGED <<cacheVars, extractVars, monVars, apiVars, lockVars>>
    \/ (\E resp \in Responses : AttemptErr(resp)) /\ UNCHANGED <<cacheVars, extractVars, monVars, apiVars, lockVars>>
    \/ AttemptTimeout /\ UNCHANGED <<cacheVars, extractVars, monVars, apiVars, lockVars>>
    \/ Backoff /\ UNCHANGED <<cacheVars, extractVars, monVars, apiVars, lockVars>>
    \/ UnwrapNone /\ UNCHANGED <<cacheVars, extractVars, monVars, apiVars, lockVars>>

SpecFetch == InitFetch /\ [][NextFetch]_vars

(* A call of get_token_accounts_by_mint whose attempts 0..attempt have all  *)
(* failed and that is about to sleep before the next one, on a client built *)
(* with a max_retries that leaves one more attempt.                         *)
InitBackoff ==
    /\ CacheInit /\ ExtractIdle /\ MonitorIdle /\ ApiIdle /\ LockIdle
    /\ attempt \in 0..MaxAttempt
    /\ max_retries = attempt + 2
    /\ f_pc = "sleep"
    /\ last_error = "Unable to fetch token accounts"
    /\ calls = [i \in 1..(attempt + 1) |-> "rpc_error"]
    /\ sleeps = [i \in 1..attempt |-> exponential_backoff(i - 1)]
    /\ f_result = RpcNone

NextBackoff ==
    \/ Backoff /\ UNCHANGED <<cacheVars, extractVars, monVars, apiVars, lockVars>>
    \/ (\E resp \in Responses : AttemptOk(resp)) /\ UNCHANGED <<cacheVars, extractVars, monVars, apiVars, lockVars>>
    \/ (\E resp \in Responses : AttemptErr(resp)) /\ UNCHANGED <<cacheVars, extractVars, monVars, apiVars, lockVars>>
    \/ AttemptTimeout /\ UNCHANGED <<cacheVars, extractVars, monVars, apiVars, lockVars>>

SpecBackoff == InitBackoff /\ [][NextBackoff]_vars

(* One call of extract_holders on any batch of at most MaxAccounts accounts *)
InitExtract ==
    /\ CacheInit /\ FetchIdle /\ MonitorIdle /\ ApiIdle /\ LockIdle
    /\ accounts \in Batches(MaxAccounts)
    /\ e_pc = "call"
    /\ holders = NoHolders

NextExtract == Extract /\ UNCHANGED <<cacheVars, fetchVars, monVars, apiVars, lockVars>>

SpecExtract == InitExtract /\ [][NextExtract]_vars

(* The monitoring loop of main, from its first pass on; Cli::validate has   *)
(* rejected max_retries = 0.                                                *)
InitMonitor ==
    /\ CacheInit /\ ExtractIdle /\ ApiIdle /\ LockIdle
    /\ max_retries \in 1..MaxRetries
    /\ f_pc = "idle"
    /\ attempt = 0
    /\ last_error = "-"
    /\ calls = <<>>
    /\ sleeps = <<>>
    /\ f_result = RpcNone
    /\ m_pc = "check"
    /\ shutdown = FALSE
    /\ previous_count = None
    /\ metrics = Metrics_new
    /\ stats = NoStats
    /\ observed = <<>>

MonitorFetchStep ==
    \/ \E resp \in Responses : AttemptOk(resp)
    \/ \E resp \in Responses : AttemptErr(resp)
    \/ AttemptTimeout
    \/ Backoff

NextMonitor ==
    \/ CtrlC /\ UNCHANGED <<cacheVars, fetchVars, extractVars, apiVars, lockVars>>
    \/ MonitorStop /\ UNCHANGED <<cacheVars, extractVars, apiVars, lockVars>>
    \/ MonitorStartCycle /\ UNCHANGED <<cacheVars, extractVars, apiVars, lockVars>>
    \/ (\E resp \in Responses : AttemptOk(resp)) /\ UNCHANGED <<cacheVars, extractVars, monVars, apiVars, lockVars>>
    \/ (\E resp \in Responses : AttemptErr(resp)) /\ UNCHANGED <<cacheVars, extractVars, monVars, apiVars, lockVars>>
    \/ AttemptTimeout /\ UNCHANGED <<cacheVars, extractVars, monVars, apiVars, lockVars>>
    \/ Backoff /\ UNCHANGED <<cacheVars, extractVars, monVars, apiVars, lockVars>>
    \/ MonitorCycleErr /\ UNCHANGED <<cacheVars, extractVars, apiVars, lockVars>>
    \/ (\E batch \in MonitorBatches, t \in Seconds : MonitorCycleOk(batch, t))
          /\ UNCHANGED <<cache, cl, rf, ev, gets, rounds, asked, extractVars, apiVars, lockVars>>
    \/ MonitorTick /\ UNCHANGED <<cacheVars, extractVars, apiVars, lockVars>>

SpecMonitor == InitMonitor /\ [][NextMonitor]_vars

(* The tick of the interval timer always comes, the attempts of a fetch and *)
(* its sleeps end (each attempt has a timeout), and the loop goes on when   *)
(* it can.                                                                  *)
MonitorFairness ==
    /\ WF_vars(MonitorTick /\ UNCHANGED <<cacheVars, extractVars, apiVars, lockVars>>)
    /\ WF_vars(MonitorStartCycle /\ UNCHANGED <<cacheVars, extractVars, apiVars, lockVars>>)
    /\ WF_vars(MonitorStop /\ UNCHANGED <<cacheVars, extractVars, apiVars, lockVars>>)
    /\ WF_vars(MonitorCycleErr /\ UNCHANGED <<cacheVars, extractVars, apiVars, lockVars>>)
    /\ WF_vars(MonitorFetchStep /\ UNCHANGED <<cacheVars, extractVars, monVars, apiVars, lockVars>>)

SpecMonitorFair == SpecMonitor /\ MonitorFairness

(* A Metrics from Metrics::new() on, under any sequence of calls of update  *)
(* and add_alert.                                                           *)
NextMetrics ==
    \/ (\E holder_count \in UpdateCounts : MetricsUpdate(holder_count))
          /\ UNCHANGED <<cacheVars, fetchVars, extractVars, apiVars, lockVars>>
    \/ (\E message \in AlertMessages : MetricsAddAlert(message))
          /\ UNCHANGED <<cacheVars, fetchVars, extractVars, apiVars, lockVars>>

SpecMetrics == Init /\ [][NextMetrics]_vars

----------------------------------------------------------------------------
(* Properties of the holder cache, checked under Spec                       *)

(* C1: after every step that changes the cache table (a caller's insert or  *)
(* a write of the refresher) the table holds at most max_tokens keys.       *)
C1_AtMostMaxTokens == Cardinality(DOMAIN cache) <= max_tokens

(* C2: at any time at most one remote fetch is in flight for a mint, be it  *)
(* started by callers of get_holder_count or by the refresher.              *)
C2_OneFetchPerMint == \A m \in Mints : Cardinality(InFlight(m)) <= 1

C4_HitOnlyCounts ==
    [][\A p \in Clients, m \in Mints :
         GetHit(p, m) =>
            /\ DOMAIN cache' = DOMAIN cache
            /\ cache'[m] = HolderCacheEntry(cache[m].count, cache[m].timestamp,
                                            cache[m].request_count + 1,
                                            cache[m].first_seen)
            /\ \A k \in (DOMAIN cache) \ {m} : cache'[k] = cache[k]
            /\ cl' = cl
            /\ rf' = rf
            /\ \A k \in Mints : InFlight(k)' = InFlight(k)
            /\ ev'.ret = Ok(cache'[m])
      ]_vars

(* A hit has just been served from an entry fetched before the current      *)
(* second, and it was not the first hit on it.                              *)
C4_Witness ==
    /\ ev.op = "hit"
    /\ ev.mint \in DOMAIN cache
    /\ cache[ev.mint].timestamp < now
    /\ cache[ev.mint].request_count >= 2
    /\ ev.ret = Ok(cache[ev.mint])

(* C5: the write of a refresh of a resident key leaves the entry's          *)
(* request_count and first_seen as they were immediately before the write.  *)
C5_RefreshKeepsRequestCount ==
    [][RefreshWrite /\ Head(rf.todo) \in DOMAIN cache =>
          /\ cache'[Head(rf.todo)].request_count = cache[Head(rf.todo)].request_count
          /\ cache'[Head(rf.todo)].first_seen = cache[Head(rf.todo)].first_seen
      ]_vars

(* C6: while a key stays resident its request_count never decreases.        *)
C6_RequestCountMonotonic ==
    [][\A m \in (DOMAIN cache) \cap (DOMAIN cache') :
          cache'[m].request_count >= cache[m].request_count
      ]_vars

(* C7: when the fetch of a miss fails, get_holder_count returns that error  *)
(* and neither step of the call (the lookup that missed, the failed fetch)  *)
(* changes the cache table.                                                 *)
C7_FailedMissLeavesCache ==
    [][\A p \in Clients :
          /\ \A r \in fetch_holder_count(cl[p].mint) :
                GetFetchErr(p, r) =>
                   /\ cache' = cache
                   /\ ev'.ret = Err(r.error)
                   /\ cl'[p].pc = "idle"
          /\ \A m \in Mints \cup {BadMint}, t \in Seconds :
                GetMiss(p, m, t) => cache' = cache
      ]_vars

(* A miss for a well-formed mint has just failed while the table was full:  *)
(* the mint is not resident and the table still holds max_tokens entries.   *)
C7_Witness ==
    /\ ev.op = "get_fetch_err"
    /\ ev.mint \in Mints
    /\ ev.ret.tag = "err"
    /\ ev.mint \notin DOMAIN cache
    /\ Cardinality(DOMAIN cache) = max_tokens

(* C8: a failed refresh of a key changes nothing in the cache table.        *)
C8_FailedRefreshLeavesCache ==
    [][\A r \in fetch_holder_count(IF rf.todo = <<>> THEN NoMint ELSE Head(rf.todo)) :
          RefreshFetchErr(r) => cache' = cache
      ]_vars

(* A refresh of a resident key has just failed and the key is resident.     *)
C8_Witness ==
    /\ ev.op = "refresh_fetch_err"
    /\ ev.mint \in DOMAIN cache
    /\ cache[ev.mint].request_count >= 1

(* C12: a get for a malformed identifier returns the invalid-identifier     *)
(* error in the step that looks the key up, leaving the cache table and     *)
(* every task as they were; no task ever waits for a remote call (a fetch   *)
(* that could be retried) for a malformed identifier, be it a caller or     *)
(* the refresher, and no malformed identifier is ever resident.             *)
C12_InvalidMintNoRemoteCall ==
    /\ [](/\ \A p \in Clients : cl[p].pc = "fetch" => cl[p].mint \in Mints
          /\ rf.pc # "tick" => Head(rf.todo) \in Mints
          /\ InFlight(BadMint) = {}
          /\ DOMAIN cache \subseteq Mints)
    /\ [][\A p \in Clients, t \in Seconds :
             GetInvalid(p, BadMint, t) =>
                /\ cache' = cache
                /\ cl' = cl
                /\ rf' = rf
                /\ ev'.ret = Err("Invalid mint address")
         ]_vars

(* A get for the malformed identifier has just been answered with the       *)
(* error while an entry was resident and another caller's fetch in flight.  *)
C12_Witness ==
    /\ ev.op = "get_invalid"
    /\ ev.mint = BadMint
    /\ ev.ret = Err("Invalid mint address")
    /\ DOMAIN cache # {}
    /\ \E p \in Clients : cl[p].pc = "fetch"

(* C18: GET /holders/{token_id} answers 400 for a malformed identifier,     *)
(* 502 or 504 when the fetch of a miss timed out or failed upstream, and    *)
(* 200 whenever get_holder_count returned an entry.                         *)
C18_StatusCodes ==
    LET status == get_holders_status(ev.mint, ev.ret)
    IN  /\ ev.op = "bad_request" => status = 400
        /\ ev.op = "get_fetch_err" => status \in {502, 504}
        /\ ev.op \in {"hit", "store"} => status = 200

(* C20, checked under SpecRefreshFair: when the refresh of a key fails the  *)
(* task goes on with the next key of the snapshot, or to the next tick if   *)
(* it was the last; and whenever a key is resident, the task later starts   *)
(* a fetch for it, unless the key leaves the table first.  Hence every key  *)
(* that stays resident is fetched again and again, and the task never       *)
(* stops.                                                                   *)
C20_RefresherNeverStops ==
    /\ [][\A r \in fetch_holder_count(IF rf.todo = <<>> THEN NoMint ELSE Head(rf.todo)) :
             RefreshFetchErr(r) =>
                IF Len(rf.todo) > 1
                THEN rf'.pc = "fetch" /\ rf'.todo = Tail(rf.todo)
                ELSE rf'.pc = "tick"
         ]_vars
    /\ [](\A k \in Mints :
             \/ k \notin DOMAIN cache
             \/ <>(k \notin DOMAIN cache \/ (rf.pc = "fetch" /\ Head(rf.todo) = k)))

(* The refresh of a key has just failed and the task is fetching the next   *)
(* key of the same snapshot, which is resident.                             *)
C20_Witness ==
    /\ ev.op = "refresh_fetch_err"
    /\ rf.pc = "fetch"
    /\ Head(rf.todo) # ev.mint
    /\ Head(rf.todo) \in DOMAIN cache
    /\ ev.mint \in DOMAIN cache

(* C21: when a refresh and a miss of the same key race, the entry holds,   *)
(* after both have written, the result of the fetch that returned last.  A  *)
(* caller's fetch returns in the step that stores its entry: when it stores *)
(* right after the task's write, the timestamp it stores is no earlier than *)
(* any reading of the clock made before.  And when the task's fetch         *)
(* returned before the caller's (the task was between its fetch and its     *)
(* write when the caller stored), the task's write keeps the caller's count *)
(* and timestamp.                                                           *)
C21_LastCompletedFetchWins ==
    /\ [][\A p \in Clients, c \in Counts :
             (GetStore(p, FetchOk(c)) /\ ev.op = "refresh_write" /\ ev.mint = cl[p].mint) =>
                /\ cache'[cl[p].mint].count = c
                /\ cache'[cl[p].mint].timestamp >= now
         ]_vars
    /\ [][(RefreshWrite /\ ev.op = "store" /\ ev.mint = Head(rf.todo)) =>
             /\ cache'[Head(rf.todo)].count = ev.ret.entry.count
             /\ cache'[Head(rf.todo)].timestamp = ev.ret.entry.timestamp
         ]_vars

(* C22: no step of the refresh task raises the request_count of an entry:   *)
(* the task's write, the only step of the task that changes the table,      *)
(* leaves every resident entry with a request_count no greater than before. *)
C22_RefreshNeverRaisesRequestCount ==
    [][RefreshWrite =>
          \A m \in (DOMAIN cache) \cap (DOMAIN cache') :
             cache'[m].request_count <= cache[m].request_count
      ]_vars

(* C23: the refresh task adds no key to the table: the set of resident keys *)
(* is the same before and after every write of the task, so a key evicted   *)
(* after the task took its snapshot is not resident after the write either. *)
C23_RefreshAddsNoKey ==
    [][RefreshWrite => DOMAIN cache' = DOMAIN cache]_vars

(* A get served for key m: a hit on m, or the store that ends a miss on m.   *)
ServedStep(m) ==
    \E p \in Clients :
        \/ GetHit(p, m)
        \/ cl[p].mint = m /\ \E c \in Counts : GetStore(p, FetchOk(c))

(* C26: a key becomes resident with request_count 1 and first_seen the time *)
(* its get took on entry; and while the key stays resident its              *)
(* request_count is the number of gets served for it since: a step that     *)
(* serves a get for the key adds exactly 1, any other step leaves the       *)
(* request_count as it was.                                                 *)
C26_RequestCountCountsServedGets ==
    [][/\ \A p \in Clients, c \in Counts :
             (GetStore(p, FetchOk(c)) /\ cl[p].mint \notin DOMAIN cache) =>
                /\ cache'[cl[p].mint].request_count = 1
                /\ cache'[cl[p].mint].first_seen = cl[p].now
       /\ \A m \in (DOMAIN cache) \cap (DOMAIN cache') :
             cache'[m].request_count =
                cache[m].request_count + (IF ServedStep(m) THEN 1 ELSE 0)
      ]_vars

(* C27: while a key stays resident its timestamp never decreases, whichever *)
(* task writes the entry.                                                   *)
C27_TimestampNeverDecreases ==
    [][\A m \in (DOMAIN cache) \cap (DOMAIN cache') :
          cache'[m].timestamp >= cache[m].timestamp
      ]_vars

(* C28, checked under SpecResident: in the 200 response of a get, `cached`  *)
(* is true when the get was a hit and false when the get itself fetched     *)
(* (a miss that stored its entry); these are the only gets answered 200.    *)
C28_CachedIffHit ==
    /\ ev.op = "hit" => HolderResponse(ev.mint, ev.ret.entry).cached
    /\ ev.op = "store" => ~HolderResponse(ev.mint, ev.ret.entry).cached

----------------------------------------------------------------------------
(* Properties of the tasks' use of the table lock, checked under SpecLock   *)

(* C24: a task whose call of the RPC client is in flight holds the lock of  *)
(* the table neither for reading nor for writing, be it a caller of         *)
(* get_holder_count or the refresh task.                                    *)
C24_NoLockDuringFetch == \A t \in rpc : ~Holds(t)

(* A caller holds the write lock for a hit on one key while the fetch of    *)
(* another task, for another key, is in flight.                             *)
C24_Witness ==
    \E p \in Clients :
        /\ lock.writer = p
        /\ cl[p].pc = "lookup"
        /\ cl[p].mint \in DOMAIN cache
        /\ \E q \in (rpc \cap Clients) \ {p} : cl[q].mint # cl[p].mint

(* C25: when the timeout of a caller's fetch elapses the caller gets the    *)
(* timeout error and the call of the RPC client it had started is still in  *)
(* flight, so that it can complete later.                                   *)
C25_TimeoutLeavesAttemptRunning ==
    [][\A p \in Clients :
          LkGetFetchTimeout(p) =>
             /\ ev'.ret = Err("RPC request timed out")
             /\ p \in rpc'
      ]_vars

----------------------------------------------------------------------------
(* Properties of ApiState, checked under SpecApi                            *)

(* An entry for m exists and is younger than the time to live.              *)
Fresh(m) == m \in DOMAIN a_cache /\ a_now - a_cache[m].timestamp < cache_ttl

(* C29: a read is served from the cache exactly when an entry exists with   *)
(* now - timestamp < ttl, and then returns the entry's count with cached =  *)
(* true and changes nothing; otherwise, be the entry absent or expired, the *)
(* read starts a remote fetch and changes nothing; when the fetch succeeds  *)
(* the entry is overwritten with the new count and the current time and the *)
(* response has cached = false; when it fails the error is returned and the *)
(* table is left as it was.                                                 *)
C29_ExpiredEntryIsAMiss ==
    /\ [](\A p \in Clients, m \in ApiMints :
             a_cl[p].pc = "idle" =>
                /\ (ENABLED ApiGetHit(p, m)) <=> Fresh(m)
                /\ (ENABLED ApiGetMiss(p, m)) <=> ~Fresh(m))
    /\ [][\A p \in Clients :
             /\ \A m \in ApiMints :
                   /\ ApiGetHit(p, m) =>
                         /\ a_ev'.ret.tag = "ok"
                         /\ a_ev'.ret.response.holders = a_cache[m].count
                         /\ a_ev'.ret.response.cached
                         /\ a_cache' = a_cache
                         /\ a_cl' = a_cl
                   /\ ApiGetMiss(p, m) =>
                         /\ a_cl'[p] = [pc |-> "fetch", mint |-> m]
                         /\ a_cache' = a_cache
             /\ \A c \in Counts :
                   ApiStore(p, FetchOk(c)) =>
                      /\ a_cache' = Insert(a_cache, a_cl[p].mint,
                                           CacheEntry(c, a_now, cache_ttl))
                      /\ a_ev'.ret.tag = "ok"
                      /\ a_ev'.ret.response.holders = c
                      /\ ~a_ev'.ret.response.cached
             /\ \A r \in api_fetch_holder_count(a_cl[p].mint) :
                   ApiFetchErr(p, r) =>
                      /\ a_cache' = a_cache
                      /\ a_ev'.ret = ApiErr(r.error)
         ]_vars

(* A read has just found an entry that is as old as a positive time to live *)
(* and has started a remote fetch for it.                                   *)
C29_Witness ==
    /\ a_ev.op = "miss"
    /\ cache_ttl >= 1
    /\ a_ev.mint \in DOMAIN a_cache
    /\ a_now - a_cache[a_ev.mint].timestamp = cache_ttl
    /\ \E p \in Clients : a_cl[p] = [pc |-> "fetch", mint |-> a_ev.mint]

----------------------------------------------------------------------------
(* Properties of the retry loop, checked under SpecFetch                    *)

Transient == {"rpc_error", "hang"}
AllTransient == \A i \in 1..Len(calls) : calls[i] \in Transient
Ended == f_pc \in {"returned", "panicked"}

(* C9: with max_retries = n >= 1 and every attempt failing transiently, the *)
(* call ends after exactly n attempts and n-1 sleeps of backoff(0), ...,    *)
(* backoff(n-2) (1 s then 2 s for n = 3) with the retries-exhausted error   *)
(* that carries the last attempt's error; it never sleeps after the final   *)
(* attempt, and every sleep follows a failed attempt.                       *)
C9_ExhaustsAfterNAttempts ==
    (max_retries >= 1 /\ AllTransient) =>
        /\ Len(calls) <= max_retries
        /\ f_pc = "sleep" => Len(calls) < max_retries /\ Len(sleeps) = Len(calls) - 1
        /\ f_pc = "loop" => Len(sleeps) = Len(calls)
        /\ \A i \in 1..Len(sleeps) : sleeps[i] = exponential_backoff(i - 1)
        /\ Ended =>
              /\ f_pc = "returned"
              /\ Len(calls) = max_retries
              /\ Len(sleeps) = max_retries - 1
              /\ max_retries = 3 => sleeps = <<1000, 2000>>
              /\ f_result = RpcErr("Failed to get token accounts after all retries",
                                   IF calls[Len(calls)] = "hang"
                                   THEN timeout_error
                                   ELSE "Unable to fetch token accounts")

(* A call with max_retries = 3 has ended after a remote error, a timeout    *)
(* and a remote error, having slept 1 s and 2 s.                            *)
C9_Witness ==
    /\ max_retries = 3
    /\ f_pc = "returned"
    /\ calls = <<"rpc_error", "hang", "rpc_error">>
    /\ sleeps = <<1000, 2000>>
    /\ f_result.tag = "err"

(* C10: an attempt that fails because the endpoint lacks the index is the   *)
(* last attempt of the call, and no backoff sleep follows it.               *)
C10_UnsupportedNotRetried ==
    \A i \in 1..Len(calls) :
        calls[i] = "no_index" =>
            /\ i = Len(calls)
            /\ f_pc = "returned"
            /\ Len(sleeps) = i - 1

(* C19: the attempt that succeeds is the last step of the call: if it is    *)
(* attempt k, the call has made k+1 attempts and slept k times, has         *)
(* returned Ok, and makes no attempt and sleeps no more; there are never    *)
(* more than max_retries attempts.                                          *)
C19_StopsAtFirstSuccess ==
    /\ [](/\ Len(calls) <= max_retries
          /\ \A i \in 1..Len(calls) :
                calls[i] = "accounts" =>
                   /\ i = Len(calls)
                   /\ i = attempt + 1
                   /\ Len(sleeps) = i - 1
                   /\ f_pc = "returned"
                   /\ f_result = RpcOk
          /\ (f_pc = "returned" /\ f_result.tag = "ok") =>
                (calls # <<>> /\ calls[Len(calls)] = "accounts"))
    /\ [][f_pc = "returned" => UNCHANGED fetchVars]_vars

(* A call with max_retries = 3 has returned Ok from its second attempt,     *)
(* after one failed attempt and one sleep of 1 s.                           *)
C19_Witness ==
    /\ max_retries = 3
    /\ f_pc = "returned"
    /\ f_result = RpcOk
    /\ calls = <<"hang", "accounts">>
    /\ sleeps = <<1000>>

----------------------------------------------------------------------------
(* Properties of the backoff delay, checked under SpecBackoff               *)

(* C31: a call never returns Ok after an attempt that was answered with no *)
(* accounts: such an attempt is a failed attempt (the call sleeps the       *)
(* backoff and tries again, or it was the last attempt and the call returns *)
(* an error), every empty answer but the last of the call is followed by    *)
(* the backoff sleep of its attempt, and a call all of whose attempts were  *)
(* answered with no accounts returns the after-all-retries error.           *)
C31_EmptyBatchIsFailure ==
    /\ f_result.tag = "ok" => calls # <<>> /\ calls[Len(calls)] = "accounts"
    /\ (calls # <<>> /\ calls[Len(calls)] = "empty") =>
          /\ f_pc \in {"sleep", "loop", "returned"}
          /\ f_pc = "sleep" => Len(calls) < max_retries /\ last_error = "Unable to fetch token accounts"
          /\ f_pc = "returned" => Len(calls) = max_retries /\ f_result.tag = "err"
    /\ \A i \in 1..(Len(calls) - 1) :
          calls[i] = "empty" => Len(sleeps) >= i /\ sleeps[i] = exponential_backoff(i - 1)
    /\ (Ended /\ calls # <<>> /\ \A i \in 1..Len(calls) : calls[i] = "empty") =>
          /\ Len(calls) = max_retries
          /\ f_result = RpcErr("Failed to get token accounts after all retries",
                               "Unable to fetch token accounts")

(* A call with max_retries = 3 has ended with an error after three answers  *)
(* with no accounts, having slept 1 s and 2 s.                              *)
C31_Witness ==
    /\ max_retries = 3
    /\ f_pc = "returned"
    /\ calls = <<"empty", "empty", "empty">>
    /\ sleeps = <<1000, 2000>>
    /\ f_result.tag = "err"

(* C30: for every max_retries, 0 included, a call that has ended without    *)
(* accounts has made at least one attempt and has returned an error that    *)
(* carries the error of its last attempt; no call ends without returning.   *)
C30_FailureCarriesLastError ==
    (Ended /\ f_result.tag # "ok") =>
        /\ f_pc = "returned"
        /\ Len(calls) >= 1
        /\ f_result = RpcErr("Failed to get token accounts after all retries",
                             IF calls[Len(calls)] = "hang"
                             THEN timeout_error
                             ELSE inner_get_token_accounts_by_mint(calls[Len(calls)]).error)

(* min(1000 * 2^a, 10000) over the naturals: 1000 * 2^a exceeds 10000 from  *)
(* a = 4 on.                                                                *)
ExactBackoff(a) == IF a >= 4 THEN backoff_cap_ms ELSE base_delay_ms * 2^a

(* C11: for every attempt a the loop can pass, the delay is computed        *)
(* without overflow (the task does not panic), equals                       *)
(* min(1000 * 2^a, 10000) ms, is at most 10 s and is not less than the      *)
(* delay slept before it.                                                   *)
C11_BackoffExactNoOverflow ==
    /\ f_pc # "panicked"
    /\ (f_pc # "sleep" /\ sleeps # <<>>) =>
          LET n == Len(sleeps)
          IN  /\ sleeps[n] = ExactBackoff(n - 1)
              /\ sleeps[n] <= backoff_cap_ms
              /\ n > 1 => sleeps[n - 1] <= sleeps[n]

----------------------------------------------------------------------------
(* Properties of extract_holders, checked under SpecExtract                 *)

(* C13: extract_holders returns Ok with exactly the owners named by some    *)
(* account of the batch whose data has at least 72 bytes, whose amount      *)
(* (little-endian u64 at 64..72) is not zero and whose owner is not the     *)
(* all-zero key; other accounts are skipped wherever they stand, and an     *)
(* owner is in the set once however many accounts name it.                  *)
C13_ExtractsValidOwners ==
    e_pc = "returned" =>
        /\ holders.ok
        /\ holders.holders =
              {o \in Owners \ {PubkeyDefault} :
                 \E i \in 1..Len(accounts) :
                    /\ accounts[i].len >= 72
                    /\ \E k \in 1..8 : accounts[i].amount_bytes[k] # 0
                    /\ accounts[i].owner = o}

(* A batch of a too short account, a zero-balance account and a valid       *)
(* account, in this order, has yielded the valid owner alone.               *)
C13_Witness ==
    /\ e_pc = "returned"
    /\ Len(accounts) = 3
    /\ accounts[1].len < 72 /\ accounts[1].owner = 2
    /\ accounts[1].amount_bytes = <<1, 0, 0, 0, 0, 0, 0, 0>>
    /\ accounts[2].len >= 72 /\ accounts[2].owner = 2
    /\ accounts[2].amount_bytes = <<0, 0, 0, 0, 0, 0, 0, 0>>
    /\ accounts[3].len >= 72 /\ accounts[3].owner = 1
    /\ accounts[3].amount_bytes = <<0, 0, 0, 0, 0, 0, 0, 128>>
    /\ holders = HoldersOk({1})

----------------------------------------------------------------------------
(* Properties of the monitoring cycle, checked under SpecMonitor            *)

(* A step that completes a successful cycle *)
CycleOkStep == \E batch \in MonitorBatches, t \in Seconds : MonitorCycleOk(batch, t)

(* The alerts a step appends to metrics.alerts *)
NewAlerts == SubSeq(metrics'.alerts, Len(metrics.alerts) + 1, Len(metrics'.alerts))
NewOfKind(kind) == {i \in 1..Len(NewAlerts) : NewAlerts[i].kind = kind}

(* C14: in a cycle that has a previous count, the change is the signed      *)
(* difference of the cycle's count and the previous count, negative when    *)
(* the count fell, and the count reported is the cycle's count.             *)
C14_ChangeIsSignedDifference ==
    [][(CycleOkStep /\ previous_count.some) =>
          /\ stats'.change = previous_count'.value - previous_count.value
          /\ stats'.count = previous_count'.value
          /\ (previous_count'.value < previous_count.value) => stats'.change < 0
      ]_vars

(* A cycle has just counted 8 holders after 10: the change is -2.           *)
C14_Witness ==
    /\ m_pc = "wait"
    /\ metrics.total_polls = 2
    /\ metrics.max_holders = Some(10)
    /\ stats.count = 8
    /\ stats.change = -2

(* C15: without a previous count the change and the percentage are 0; with  *)
(* a previous count of 0 the percentage is 0 if the count is 0 and exactly  *)
(* 100 if it is positive; the percentage is always a finite number.         *)
C15_DegenerateCases ==
    [][CycleOkStep =>
          /\ stats'.change_percent.den > 0
          /\ ~previous_count.some =>
                /\ stats'.change = 0
                /\ f64_eq(stats'.change_percent, 0)
          /\ (previous_count.some /\ previous_count.value = 0) =>
                IF stats'.count = 0
                THEN f64_eq(stats'.change_percent, 0)
                ELSE f64_eq(stats'.change_percent, 100)
      ]_vars

(* A cycle has just counted 15 holders after a cycle that counted none.     *)
C15_Witness ==
    /\ m_pc = "wait"
    /\ metrics.total_polls = 2
    /\ metrics.min_holders = Some(0)
    /\ stats.count = 15
    /\ stats.change = 15
    /\ f64_eq(stats.change_percent, 100)

(* C16: a cycle appends a growth alert iff there is a previous count and    *)
(* the percentage is at least 50, a drop alert iff there is a previous      *)
(* count and the percentage is at most -20, each at most once and never     *)
(* both, and nothing else; the alerts already there stay.  So 15 after 10   *)
(* appends exactly one growth alert, 8 after 10 exactly one drop alert,     *)
(* and a first cycle none.                                                  *)
C16_AlertsAtThresholds ==
    [][CycleOkStep =>
          LET pct == stats'.change_percent
              growth == previous_count.some /\ pct.num >= 50 * pct.den
              drop == previous_count.some /\ pct.num <= (-20) * pct.den
          IN  /\ SubSeq(metrics'.alerts, 1, Len(metrics.alerts)) = metrics.alerts
              /\ Cardinality(NewOfKind("GROWTH")) = (IF growth THEN 1 ELSE 0)
              /\ Cardinality(NewOfKind("DROP")) = (IF drop THEN 1 ELSE 0)
              /\ Len(NewAlerts) <= 1
              /\ (previous_count = Some(10) /\ stats'.count = 15) =>
                    Len(NewAlerts) = 1 /\ NewAlerts[1].kind = "GROWTH"
              /\ (previous_count = Some(10) /\ stats'.count = 8) =>
                    Len(NewAlerts) = 1 /\ NewAlerts[1].kind = "DROP"
              /\ ~previous_count.some => NewAlerts = <<>>
      ]_vars

(* After cycles that counted 10 and then 15 holders (+50%) the alerts are   *)
(* one growth alert.                                                        *)
C16_Witness ==
    /\ m_pc = "wait"
    /\ metrics.total_polls = 2
    /\ stats.count = 15
    /\ stats.change = 5
    /\ Len(metrics.alerts) = 1
    /\ metrics.alerts[1] = GrowthAlert(stats, 10)

(* C17, checked under SpecMonitorFair: a cycle whose fetch has failed after  *)
(* its last attempt leaves the loop waiting for the next tick, not stopped; *)
(* and from there, unless the shutdown signal arrives, the tick comes and   *)
(* another cycle starts its fetch.                                          *)
C17_FailedCycleContinues ==
    /\ [][(m_pc = "fetch" /\ f_pc = "returned" /\ f_result.tag = "err" /\ m_pc' # m_pc) =>
            /\ m_pc' = "wait"
            /\ shutdown' = shutdown
        ]_vars
    /\ (m_pc = "wait" /\ f_result.tag = "err")
          ~> (shutdown \/ (m_pc = "fetch" /\ f_pc = "loop" /\ calls = <<>>))

(* After a successful cycle, a cycle has just failed with every attempt     *)
(* used up, and no shutdown signal has come.                                *)
C17_Witness ==
    /\ m_pc = "wait"
    /\ ~shutdown
    /\ f_result.tag = "err"
    /\ Len(calls) = max_retries
    /\ max_retries = 3
    /\ metrics.total_polls = 1

(* C32, checked under SpecMonitor: a cycle whose fetch has failed leaves    *)
(* the metrics and previous_count as they were; only a successful cycle     *)
(* changes them, and it sets previous_count to its own count.  So           *)
(* previous_count is None exactly until the first successful cycle and      *)
(* afterwards is the count of the last successful cycle, and the first      *)
(* successful cycle appends no alert.                                       *)
C32_FailedCycleKeepsMetrics ==
    /\ [](~previous_count.some <=> metrics.total_polls = 0)
    /\ [](previous_count.some => previous_count.value = stats.count)
    /\ [](metrics.total_polls = 0 => metrics = Metrics_new /\ stats = NoStats)
    /\ [][(m_pc = "fetch" /\ f_pc = "returned" /\ f_result.tag = "err" /\ m_pc' # m_pc) =>
            /\ metrics' = metrics
            /\ previous_count' = previous_count
        ]_vars
    /\ [][~CycleOkStep => metrics' = metrics /\ previous_count' = previous_count]_vars
    /\ [][CycleOkStep =>
            /\ previous_count' = Some(stats'.count)
            /\ metrics'.total_polls = metrics.total_polls + 1
            /\ ~previous_count.some => metrics'.alerts = <<>>
        ]_vars

(* A cycle has failed with every attempt used up after a successful cycle   *)
(* that counted 8 holders: the count and the metrics of that cycle are      *)
(* still there.                                                             *)
C32_Witness ==
    /\ m_pc = "wait"
    /\ f_result.tag = "err"
    /\ Len(calls) = max_retries
    /\ previous_count = Some(8)
    /\ stats.count = 8
    /\ metrics.total_polls = 1
    /\ metrics.total_holders_sum = 8
    /\ metrics.alerts = <<>>

(* The sum, the minimum and the maximum of a sequence of counts *)
RECURSIVE SumOf(_)
SumOf(seq) == IF seq = <<>> THEN 0 ELSE seq[1] + SumOf(Tail(seq))
MinOf(seq) == CHOOSE x \in {seq[i] : i \in 1..Len(seq)} : \A i \in 1..Len(seq) : x <= seq[i]
MaxOf(seq) == CHOOSE x \in {seq[i] : i \in 1..Len(seq)} : \A i \in 1..Len(seq) : x >= seq[i]

AddAlertStep == \E message \in AlertMessages : MetricsAddAlert(message)

(* C33, checked under SpecMetrics: after any calls of update, total_polls   *)
(* is the number of calls, total_holders_sum the sum of the counts passed,  *)
(* min_holders and max_holders their minimum and maximum (both None         *)
(* exactly when there was no call, min <= max otherwise); update leaves the *)
(* alerts alone, and add_alert, called in any state reached, appends its    *)
(* message, a repeated one too, after the alerts already there.             *)
C33_MetricsSummariseObserved ==
    /\ [](metrics.total_polls = Len(observed))
    /\ [](metrics.total_holders_sum = SumOf(observed))
    /\ [](observed = <<>> => ~metrics.min_holders.some /\ ~metrics.max_holders.some)
    /\ [](observed # <<>> =>
            /\ metrics.min_holders = Some(MinOf(observed))
            /\ metrics.max_holders = Some(MaxOf(observed))
            /\ metrics.min_holders.value <= metrics.max_holders.value)
    /\ [](metrics.min_holders.some <=> metrics.total_polls # 0)
    /\ [](metrics.max_holders.some <=> metrics.total_polls # 0)
    /\ [](\A message \in AlertMessages :
            Metrics_add_alert(metrics, message).alerts = Append(metrics.alerts, message))
    /\ [][AddAlertStep \/ metrics'.alerts = metrics.alerts]_vars
    /\ [][/\ Len(metrics'.alerts) >= Len(metrics.alerts)
          /\ SubSeq(metrics'.alerts, 1, Len(metrics.alerts)) = metrics.alerts
        ]_vars

(* update was called with 10, 8, 15 and 10: the minimum and the maximum     *)
(* came in the middle; the same alert was added twice and is there twice.   *)
C33_Witness ==
    /\ observed = <<10, 8, 15, 10>>
    /\ metrics.total_polls = 4
    /\ metrics.total_holders_sum = 43
    /\ metrics.min_holders = Some(8)
    /\ metrics.max_holders = Some(15)
    /\ Len(metrics.alerts) = 2
    /\ metrics.alerts[1] = metrics.alerts[2]

====
